---- MODULE Spec2Model ----
(***************************************************************************)
(* A model of the mcpway transport gateways (rust/src/gateways), of the    *)
(* retry/circuit-breaker envelope (rust/src/transport/reliability.rs) and  *)
(* of the fan-in id codec of the gRPC server.  Each gateway has its own    *)
(* specification over the shared variables; the variables of the other     *)
(* gateways stay at their idle values.                                     *)
(***************************************************************************)
EXTENDS Integers, Sequences, FiniteSets, TLC

\* ------------------------------------------------------------------ bounds
\* longest original string id (in characters) fed to the id codec
MaxIdLen == 2
\* largest numeric original id fed to the id codec
MaxNum == 11
\* number of stdin lines the stdio-side caller writes to a gateway
MaxLines == 2
\* largest retry budget (RetryPolicy.max_retries) a run is configured with
MaxRetries == 1
\* number of POSTs that fail in one run (connection errors, non-2xx statuses,
\* empty bodies of a server that answers on the event stream)
MaxFaults == 2
\* calls of run_with_retry checked on one circuit breaker
MaxCalls == 2
\* CircuitBreakerPolicy.cooldown, in clock ticks
CooldownTicks == 2
\* last tick of the clock
MaxTime == 4
\* calls of the CircuitBreaker methods made in a row on one breaker
MaxApiCalls == 4
\* number of messages the gRPC clients write on their streams, all together
MaxClientMsgs == 2
\* number of messages the child originates on its own (not responses)
MaxChildOwn == 1
MaxHeaders == 2
MaxPoolCalls == 3
MaxMarks == 2
MaxUpdates == 3
MaxRequests == 2
MaxResponses == 3

VARIABLES
    \* ---- id codec exercise (prefix_id / strip_prefixed_id)
    idPc,        \* "init" | "prefixed" | "stripped"
    idTag,       \* the client tag (client_id), a sequence of characters
    idOrig,      \* the original JSON id
    idWire,      \* the JSON id after prefix_id
    idBack,      \* the Option<(client, raw_id)> strip_prefixed_id returned
    \* ---- *->stdio gateway (sse_to_stdio, streamable_http_to_stdio, ws_to_stdio)
    gw,          \* which gateway runs: "sse" | "http" | "ws" | "off"
    pc,          \* position of the stdin loop of run()
    nread,       \* number of stdin lines read so far
    inbound,     \* the stdin lines read so far (history)
    message,     \* the stdin message being handled
    initialized, \* run()'s local `initialized`
    payload,     \* the payload send_request returned for `message`
    stdout,      \* the lines printed on stdout (history)
    peer,        \* the messages the outbound peer observed (history)
    endpoint,    \* sse: message_endpoint is Some
    sessionId,   \* http: session_id is Some
    streamPc,    \* event stream task: "connecting" | "open" | "ended"
    stream,      \* events the server has put on the event stream, undelivered
    nextInit,    \* number of synthesized initialize ids used so far
    emitted,     \* the JSON events / frames the server has sent (history)
    faults,      \* number of POSTs that failed so far (empty bodies included)
    answers,     \* which requests the server answered, in the body or on the stream
    \* ---- run_with_retry and the circuit breaker
    rw,          \* the running call of run_with_retry
    breaker,     \* CircuitBreaker: consecutive_failures, open (open_until is Some)
    policy,      \* RetryPolicy.max_retries, CircuitBreakerPolicy
    \* ---- stdio->gRPC fan-in server
    clients,     \* keys of AppState.clients
    rxAlive,     \* clients whose response stream (rx) is still held by tonic
    readerPc,    \* per client: reader task "none" | "running" | "leaving" | "ended"
    sent,        \* per client: number of messages the reader task has taken
    childIn,     \* requests written to the child's stdin, not answered yet
    childOut,    \* child output lines not yet taken by the router
    inbox,       \* per client: envelopes put on its response channel (history)
    seq,         \* AppState.seq
    childOwn,    \* number of messages the child originated itself
    \* ---- the circuit breaker on a clock
    now,         \* Instant::now(), in ticks
    openUntil,   \* the instant in CircuitBreaker.open_until (0 when None)
    wakeAt,      \* deadline of the tokio::time::sleep the caller is in
    openedAt,    \* instant of the failure that last opened the breaker (history)
    streak,      \* failures recorded since the last success or closing (history)
    before       \* the breaker before the last call of its API (history)

VARIABLES
    \* ---- tool_api transports (SseTransport, WsTransport)
    transport,   \* which transport runs: "sse" | "ws" | "off"
    request_seq, \* ToolClient.request_seq, the last request id handed out
    pending,     \* the keys of the transport's `pending` map
    slot,        \* what the oneshot receiver of the running call holds
    tcall,       \* send_request: its position and the id of its request
    received,    \* the ids of the requests the server has received
    copies,      \* how many responses the server has sent for each id
    wire,        \* responses on the event stream / socket, not yet read
    handled,     \* what the reader task did with each response (history)
    delivered    \* the payloads send_request returned to its callers (history)

VARIABLES
    \* ---- grpc_to_stdio, the gateway as a gRPC client
    gseq,        \* run()'s local `seq` (AtomicU64)
    outbound     \* the envelopes put on the outbound stream (history)

VARIABLES
    \* ---- transport_fingerprint, applied to two inputs
    fpPc,        \* "off" | "input" | "done"
    fpIn,        \* the two inputs: transport, endpoint, headers, protocol version
    fpOut        \* the two fingerprints

VARIABLES
    \* ---- transport::pool (TransportPool and the warm cache file)
    http_clients, \* TransportPool.http_clients: key -> client (0: no entry)
    ptask,        \* the tasks calling http_client: position, key, client
    made,         \* the clients built so far (history)
    returned,     \* the clients http_client returned, by key (history)
    warm_hints,   \* TransportPool.warm_hints.records: key -> transport ("": none)
    file,         \* the warm cache file: whether it exists, and its content
    persist,      \* persist_warm_hint_store under way: position and body
    loaded        \* what the last load_warm_hint_store of a reader returned

VARIABLES
    \* ---- the runtime update task of a gateway
    rtAdapter,   \* the gateway: "stdio" | "stdio-grpc" | "sse" | "http" | "ws" | "grpc"
    rtArgs,      \* RuntimeArgsStore: the global headers and env/CLI arguments
    rtChild,     \* the stdio child: how often it was restarted, whether it runs
    rtLast,      \* the last update request and the result sent on respond_to
    rtCount      \* number of update requests handled

VARIABLES
    \* ---- stdio_to_grpc, authorization of the calls
    bearer_token, \* BridgeState.bearer_token: 0 for None, else the token
    metadata,     \* the authorization metadata each caller presents
    health        \* the health calls answered so far: caller and reply (history)

VARIABLES
    \* ---- tool_api client, one ToolHandle::call
    callPc,       \* position inside call_tool
    callIn,       \* the tool's input schema and the arguments the caller passed
    callArgs,     \* args_object after normalize_args_for_tool
    callInit,     \* ClientState.initialized
    callSent,     \* the requests handed to the transport, in order (history)
    callResult    \* what call returned

VARIABLES
    \* ---- RetryPolicy::backoff_delay
    boPolicy,     \* the RetryPolicy: base_delay and max_delay
    boIndex,      \* the next retry index
    boDelays      \* the delays computed for the retry indexes 0, 1, ... (history)

VARIABLES
    \* ---- wrap_response of sse_to_stdio and streamable_http_to_stdio
    envPc,        \* "input" | "printed"
    envReq,       \* the inbound request: its jsonrpc and id members
    envPayload,   \* the payload send_request returned
    envOut        \* the envelopes printed on stdout (history)

VARIABLES
    \* ---- streamable_http_to_stdio, the Mcp-Session-Id header
    session_id,   \* the shared Option<String>: 0 for None, else the id
    sid,          \* the stream task's local `sid`
    getPc,        \* stream task: "poll" | "build" | "open"
    postPc,       \* stdin loop: "idle" | "built"
    postSid,      \* the header value the POST being built carries (0: none)
    sends,        \* the requests sent: kind, id carried, id captured then (history)
    nposts        \* number of POSTs built so far

VARIABLES
    \* ---- tool_api client, the handshake before tools/list and tools/call
    client_initialized, \* ClientState.initialized
    hsPc,         \* the operation holding the state lock: "idle" | "init" |
                  \* "notify" | "request"
    hsOp,         \* its method: "tools/list" (refresh_tools) or "tools/call"
    hsWire,       \* what was handed to the transport, with its outcome (history)
    hsOps         \* number of operations started so far

idVars == <<idPc, idTag, idOrig, idWire, idBack>>
gwVars == <<gw, pc, nread, inbound, message, initialized, payload, stdout, peer,
            endpoint, sessionId, streamPc, stream, nextInit, emitted, faults,
            answers>>
rwVars == <<rw, breaker, policy>>
grpcVars == <<clients, rxAlive, readerPc, sent, childIn, childOut, inbox, seq, childOwn>>
timeVars == <<now, openUntil, wakeAt, openedAt, streak, before>>
toolVars == <<transport, request_seq, pending, slot, tcall, received, copies, wire, handled,
              delivered>>
clientVars == <<gseq, outbound>>
fpVars == <<fpPc, fpIn, fpOut>>
poolVars == <<http_clients, ptask, made, returned, warm_hints, file, persist, loaded>>
rtVars == <<rtAdapter, rtArgs, rtChild, rtLast, rtCount>>
authVars == <<bearer_token, metadata, health>>
callVars == <<callPc, callIn, callArgs, callInit, callSent, callResult>>
boVars == <<boPolicy, boIndex, boDelays>>
envVars == <<envPc, envReq, envPayload, envOut>>
sessVars == <<session_id, sid, getPc, postPc, postSid, sends, nposts>>
hsVars == <<client_initialized, hsPc, hsOp, hsWire, hsOps>>
moreVars == <<envVars, sessVars, hsVars>>
lateVars == <<callVars, boVars, moreVars>>
extVars == <<fpVars, poolVars, rtVars, authVars, lateVars>>
vars == <<idVars, gwVars, rwVars, grpcVars, timeVars, toolVars, clientVars, extVars>>

\* ------------------------------------------------------------ JSON ids
\* A JSON value in the "id" position: a string (sequence of characters), an
\* integer number, or null.  NoField stands for an absent field.
JStr(s) == [t |-> "str", s |-> s, n |-> 0]
JNum(k) == [t |-> "num", s |-> <<>>, n |-> k]
NoField == [t |-> "absent", s |-> <<>>, n |-> 0]

Digits == <<"0", "1", "2", "3", "4", "5", "6", "7", "8", "9">>
IsDigit(c) == \E d \in 1..10 : Digits[d] = c
DigitVal(c) == (CHOOSE d \in 1..10 : Digits[d] = c) - 1

RECURSIVE NatText(_)
\* decimal text of a natural number, as Display for integers prints it
NatText(k) == IF k < 10 THEN <<Digits[k + 1]>>
              ELSE NatText(k \div 10) \o <<Digits[(k % 10) + 1]>>

\* serde_json's Display of a Number holding an integer
NumberText(k) == IF k < 0 THEN <<"-">> \o NatText(0 - k) ELSE NatText(k)

\* Display of a JSON value that is neither a string nor a number (null here)
ValueText(v) == IF v.t = "num" THEN NumberText(v.n) ELSE <<"n", "u", "l", "l">>

RECURSIVE DigitsValue(_, _)
DigitsValue(s, acc) == IF s = <<>> THEN acc
                       ELSE DigitsValue(Tail(s), acc * 10 + DigitVal(Head(s)))

\* str::parse::<i64>: an optional sign, then one or more decimal digits.  The
\* texts of the model are far too short to overflow an i64.
ParseI64(s) ==
    LET signed == s # <<>> /\ Head(s) \in {"+", "-"}
        body == IF signed THEN Tail(s) ELSE s
        ok == body # <<>> /\ \A i \in 1..Len(body) : IsDigit(body[i])
    IN  [ok |-> ok,
         val |-> IF ~ok THEN 0
                 ELSE IF signed /\ Head(s) = "-" THEN 0 - DigitsValue(body, 0)
                 ELSE DigitsValue(body, 0)]

\* faulty variant: only string ids get the client tag
prefix_id_untagged(client_id, id) ==
    IF id.t = "str" THEN JStr(client_id \o <<":">> \o id.s)
    ELSE JStr(ValueText(id))

prefix_id(client_id, id) ==
    IF id.t = "str" THEN JStr(client_id \o <<":">> \o id.s)
    ELSE IF id.t = "num" THEN JStr(client_id \o <<":">> \o NumberText(id.n))
    ELSE JStr(client_id \o <<":">> \o ValueText(id))

\* position of the first ':' of s, 0 when there is none (splitn(2, ':'))
FirstColon(s) == IF \E i \in 1..Len(s) : s[i] = ":"
                 THEN CHOOSE i \in 1..Len(s) :
                          s[i] = ":" /\ \A j \in 1..(i - 1) : s[j] # ":"
                 ELSE 0

NoneId == [some |-> FALSE, client |-> <<>>, raw_id |-> NoField]

\* strip_prefixed_id applied to a message whose "id" field is id_val
strip_prefixed_id(id_val) ==
    IF id_val.t # "str" THEN NoneId
    ELSE LET k == FirstColon(id_val.s)
             raw == SubSeq(id_val.s, k + 1, Len(id_val.s))
             num == ParseI64(raw)
         IN  IF k = 0 THEN NoneId
             ELSE [some |-> TRUE, client |-> SubSeq(id_val.s, 1, k - 1),
                   raw_id |-> IF num.ok THEN JNum(num.val) ELSE JStr(raw)]

\* ------------------------------------------------ idle values of each part
IdIdle == /\ idPc = "off" /\ idTag = <<>> /\ idOrig = NoField
          /\ idWire = NoField /\ idBack = NoneId

NoMessage == [method |-> "", id |-> 0]
NoPayload == [kind |-> "none", code |-> 0, of |-> 0]
RwIdle == [pc |-> "idle", label |-> "", msg |-> NoMessage, attempt |-> 0,
           calls |-> 0, fails |-> 0, result |-> "none", value |-> NoPayload]

GwIdle == /\ gw = "off" /\ pc = "off" /\ nread = 0 /\ inbound = <<>>
          /\ message = NoMessage /\ initialized = FALSE /\ payload = NoPayload
          /\ stdout = <<>> /\ peer = <<>> /\ endpoint = FALSE
          /\ sessionId = FALSE /\ streamPc = "off" /\ stream = <<>>
          /\ nextInit = 0 /\ emitted = <<>> /\ faults = 0 /\ answers = {}

GrpcIdle == /\ clients = {} /\ rxAlive = {} /\ readerPc = <<>> /\ sent = <<>>
            /\ childIn = {} /\ childOut = <<>> /\ inbox = <<>> /\ seq = 0
            /\ childOwn = 0

TimeIdle == /\ now = 0 /\ openUntil = 0 /\ wakeAt = 0 /\ openedAt = 0 - 1
            /\ streak = 0 /\ before = [consecutive_failures |-> 0, open |-> FALSE]

ClientIdle == gseq = 0 /\ outbound = <<>>

FpIdle == fpPc = "off" /\ fpIn = <<>> /\ fpOut = <<>>

PoolIdle == /\ http_clients = <<>> /\ ptask = <<>> /\ made = {} /\ returned = {}
            /\ warm_hints = <<>> /\ file = <<>> /\ persist = <<>> /\ loaded = ""

RtIdle == /\ rtAdapter = "off" /\ rtArgs = <<>> /\ rtChild = <<>> /\ rtLast = <<>>
          /\ rtCount = 0

AuthIdle == bearer_token = 0 /\ metadata = <<>> /\ health = {}

CallIdle == /\ callPc = "off" /\ callIn = <<>> /\ callArgs = <<>> /\ callInit = FALSE
            /\ callSent = <<>> /\ callResult = ""

BoIdle == boPolicy = <<>> /\ boIndex = 0 /\ boDelays = <<>>

EnvIdle == envPc = "off" /\ envReq = <<>> /\ envPayload = <<>> /\ envOut = <<>>

SessIdle == /\ session_id = 0 /\ sid = 0 /\ getPc = "off" /\ postPc = "off"
            /\ postSid = 0 /\ sends = <<>> /\ nposts = 0

HsIdle == /\ client_initialized = FALSE /\ hsPc = "off" /\ hsOp = "" /\ hsWire = <<>>
          /\ hsOps = 0

MoreIdle == EnvIdle /\ SessIdle /\ HsIdle

LateIdle == CallIdle /\ BoIdle /\ MoreIdle

ExtIdle == FpIdle /\ PoolIdle /\ RtIdle /\ AuthIdle /\ LateIdle

NoSlot == [id |-> 0, copy |-> 0]
NoCall == [pc |-> "idle", id |-> 0]

ToolIdle == /\ transport = "off" /\ request_seq = 0 /\ pending = {} /\ slot = NoSlot
            /\ tcall = NoCall /\ received = {} /\ copies = <<>> /\ wire = <<>>
            /\ handled = <<>> /\ delivered = <<>>

\* ------------------------------------------------------ the id codec alone
Chars == {"0", "1", "a", ":", "-"}
RECURSIVE TextsUpTo(_)
TextsUpTo(k) == IF k = 0 THEN {<<>>}
                ELSE LET shorter == TextsUpTo(k - 1)
                     IN  shorter \cup {Append(s, c) : s \in shorter, c \in Chars}

\* client tags: Uuid::new_v4().to_string() is hex digits and '-', never ':'
TagA == <<"a", "-", "1">>
TagB == <<"b", "-", "2">>
Tags == {TagA, TagB}

OrigIds == {JStr(s) : s \in TextsUpTo(MaxIdLen)} \cup {JNum(k) : k \in (0 - 1)..MaxNum}

InitIds == /\ idPc = "init" /\ idTag \in Tags /\ idOrig \in OrigIds
           /\ idWire = NoField /\ idBack = NoneId
           /\ GwIdle /\ GrpcIdle /\ TimeIdle /\ ToolIdle /\ ClientIdle /\ ExtIdle
           /\ rw = RwIdle /\ breaker = [consecutive_failures |-> 0, open |-> FALSE]
           /\ policy = [max_retries |-> 0, failure_threshold |-> 0]

\* the reader task of stream() rewrites the id of a client message
IdPrefix == /\ idPc = "init"
            /\ idWire' = prefix_id(idTag, idOrig)
            /\ idPc' = "prefixed"
            /\ UNCHANGED <<idTag, idOrig, idBack, gwVars, rwVars, grpcVars, timeVars, toolVars, clientVars, extVars>>

\* the router of run() decodes the id of the child's answer
IdStrip == /\ idPc = "prefixed"
           /\ idBack' = strip_prefixed_id(idWire)
           /\ idPc' = "stripped"
           /\ UNCHANGED <<idTag, idOrig, idWire, gwVars, rwVars, grpcVars, timeVars, toolVars, clientVars, extVars>>

NextIds == IdPrefix \/ IdStrip
SpecIds == InitIds /\ [][NextIds]_vars

\* C4 (as stated): strip_prefixed_id applied to the id prefix_id produced gives
\* back the client tag and an id equal to the original one, of the same JSON type.
C4_RoundTrip == idPc = "stripped" =>
                    /\ idBack.some
                    /\ idBack.client = idTag
                    /\ idBack.raw_id = idOrig

\* ------------------------------------------- run_with_retry, CircuitBreaker
BreakerNew == [consecutive_failures |-> 0, open |-> FALSE]

\* faulty variant: the counter is reset, open_until is kept
record_success_stays_open(b) == [b EXCEPT !.consecutive_failures = 0]

\* CircuitBreaker::record_success
record_success(b) == [consecutive_failures |-> 0, open |-> FALSE]

\* faulty variant: the breaker opens one failure late
record_failure_late(b, pol) ==
    LET n == b.consecutive_failures + 1
    IN  IF pol.failure_threshold = 0 \/ n <= pol.failure_threshold
        THEN [b EXCEPT !.consecutive_failures = n]
        ELSE [consecutive_failures |-> 0, open |-> TRUE]

\* CircuitBreaker::record_failure: the breaker after the call (the returned
\* Option<Duration> is Some exactly when the call opened it)
record_failure(b, pol) ==
    LET n == b.consecutive_failures + 1
    IN  IF pol.failure_threshold = 0 \/ n < pol.failure_threshold
        THEN [b EXCEPT !.consecutive_failures = n]
        ELSE [consecutive_failures |-> 0, open |-> TRUE]

\* faulty variant: the caller goes on and open_until is kept
wait_if_open_stays_open(b) == b

\* CircuitBreaker::wait_if_open, after its sleep: open_until and the counter reset
wait_if_open(b) == IF b.open THEN [consecutive_failures |-> 0, open |-> FALSE] ELSE b

\* faulty variant: one retry too many (attempt > max_retries)
RetriesExhaustedLate(attempt, pol) == attempt > pol.max_retries

\* `if attempt >= retry_policy.max_retries { return Err(err) }`
RetriesExhausted(attempt, pol) == attempt >= pol.max_retries

\* a call of run_with_retry entering its loop with attempt = 0
RwCall(label, msg) == [pc |-> "run", label |-> label, msg |-> msg, attempt |-> 0,
                       calls |-> 0, fails |-> 0, result |-> "none",
                       value |-> NoPayload]

\* error_payload(-32000, err)
error_payload == [kind |-> "error", code |-> 0 - 32000, of |-> 0]

\* the record of the call after `operation().await` returned Ok(value) or Err(_):
\* return Ok, return Err when the retries are exhausted, else sleep and go round
RwAfterOperation(call, ok, value) ==
    IF ok
    THEN [call EXCEPT !.pc = "done", !.calls = @ + 1, !.result = "ok",
                      !.value = value]
    ELSE IF RetriesExhausted(call.attempt, policy)
    THEN [call EXCEPT !.pc = "done", !.calls = @ + 1, !.fails = @ + 1,
                      !.result = "err", !.value = error_payload]
    ELSE [call EXCEPT !.calls = @ + 1, !.fails = @ + 1, !.attempt = @ + 1]

\* the breaker after record_success / record_failure of that iteration
BreakerAfterOperation(b, ok) ==
    IF ok THEN record_success(b) ELSE record_failure(b, policy)

\* one iteration of the loop of run_with_retry, run by the gateway's stdin loop:
\* wait_if_open, the operation, record_success / record_failure, and the sleep
\* before the next iteration
RwIteration(ok, value) ==
    /\ rw' = RwAfterOperation(rw, ok, value)
    /\ breaker' = BreakerAfterOperation(wait_if_open(breaker), ok)

Policies == [max_retries : 0..MaxRetries, failure_threshold : 0..(MaxRetries + 1)]

\* the gateways run without retries or with the largest budget, and with a
\* breaker threshold that one failed call reaches
GwPolicies == {pol \in Policies : /\ pol.max_retries \in {0, MaxRetries}
                                   /\ pol.failure_threshold = MaxRetries + 1}

\* ---- run_with_retry step by step, called MaxCalls times on one breaker
InitRetry == /\ rw = RwIdle /\ breaker = BreakerNew /\ policy \in Policies
             /\ GwIdle /\ IdIdle /\ GrpcIdle /\ TimeIdle /\ ToolIdle /\ ClientIdle /\ ExtIdle

\* a caller enters run_with_retry: `for attempt in 0..=max_retries` starts at 0;
\* msg.id numbers the call
RetryCall ==
    /\ rw.pc = "idle" /\ rw.msg.id < MaxCalls
    /\ \E label \in {"request", "notification"} :
          rw' = [RwCall(label, [method |-> "", id |-> rw.msg.id + 1])
                     EXCEPT !.pc = "wait"]
    /\ UNCHANGED <<breaker, policy, gwVars, idVars, grpcVars, timeVars, toolVars, clientVars, extVars>>

\* circuit_breaker.wait_if_open(label).await
RetryWaitIfOpen ==
    /\ rw.pc = "wait"
    /\ breaker' = wait_if_open(breaker)
    /\ rw' = [rw EXCEPT !.pc = "op"]
    /\ UNCHANGED <<policy, gwVars, idVars, grpcVars, timeVars, toolVars, clientVars, extVars>>

\* operation().await and its match: Ok returns, Err records the failure and
\* returns when the retries are exhausted, else goes to sleep
RetryOperation ==
    /\ rw.pc = "op"
    /\ \E ok \in BOOLEAN :
          /\ rw' = LET after == RwAfterOperation(rw, ok, NoPayload)
                   IN  IF after.pc = "done" THEN after
                       ELSE [after EXCEPT !.pc = "sleep"]
          /\ breaker' = BreakerAfterOperation(breaker, ok)
    /\ UNCHANGED <<policy, gwVars, idVars, grpcVars, timeVars, toolVars, clientVars, extVars>>

\* tokio::time::sleep(delay).await, then the next iteration
RetrySleep ==
    /\ rw.pc = "sleep"
    /\ rw' = [rw EXCEPT !.pc = "wait"]
    /\ UNCHANGED <<breaker, policy, gwVars, idVars, grpcVars, timeVars, toolVars, clientVars, extVars>>

\* the caller takes the result; the breaker stays as the call left it
RetryReturn ==
    /\ rw.pc = "done"
    /\ rw' = [RwIdle EXCEPT !.msg = rw.msg]
    /\ UNCHANGED <<breaker, policy, gwVars, idVars, grpcVars, timeVars, toolVars, clientVars, extVars>>

NextRetry == RetryCall \/ RetryWaitIfOpen \/ RetryOperation \/ RetrySleep
             \/ RetryReturn

\* every await of the loop completes: the sleeps are finite and the operation
\* returns
SpecRetry == InitRetry /\ [][NextRetry]_vars /\ WF_vars(NextRetry)

RetryRunning == rw.pc \in {"wait", "op", "sleep"}

\* the counts of a call: at most max_retries + 1 invocations; every invocation
\* before the last one failed; Ok is returned at the first success and Err
\* right after failure number max_retries + 1
RetryCounts ==
    /\ rw.calls <= policy.max_retries + 1
    /\ RetryRunning => rw.fails = rw.calls /\ rw.attempt = rw.calls
    /\ (rw.pc = "done" /\ rw.result = "ok") => rw.fails = rw.calls - 1
    /\ (rw.pc = "done" /\ rw.result = "err") =>
           rw.fails = rw.calls /\ rw.calls = policy.max_retries + 1
    /\ rw.pc = "sleep" => rw.calls <= policy.max_retries

\* C10: run_with_retry terminates, invokes the operation at most
\* max_retries + 1 times, returns Ok at the first successful attempt and Err
\* after failed attempt number max_retries + 1.
C10_RetryTerminatesBounded == []RetryCounts /\ (RetryRunning ~> rw.pc = "done")

\* the last call failed max_retries + 1 times, retried, and returned Err
C10_Witness ==
    /\ rw.pc = "done" /\ rw.result = "err" /\ rw.msg.id = MaxCalls
    /\ policy.max_retries >= 1 /\ rw.calls = policy.max_retries + 1

\* ---- run_with_retry and the breaker on a clock
\* faulty variant: the caller does not wait
CooldownNone(until, t) == 0

\* wait_if_open: `if until > now { sleep(until.duration_since(now)) }`
CooldownLeft(until, t) == IF until > t THEN until - t ELSE 0

\* the delays backoff_delay gives the sleep between two attempts, in ticks
BackoffDelays == {0, 1}

InitBreaker == /\ rw = RwIdle /\ breaker = BreakerNew /\ policy \in Policies
               /\ TimeIdle /\ ToolIdle /\ ClientIdle /\ ExtIdle /\ GwIdle /\ IdIdle /\ GrpcIdle

quiet == <<gwVars, idVars, grpcVars, before, toolVars, clientVars, extVars>>

\* time passes
Tick ==
    /\ now < MaxTime
    /\ now' = now + 1
    /\ UNCHANGED <<rwVars, openUntil, wakeAt, openedAt, streak, quiet>>

\* a caller enters run_with_retry
BrCall ==
    /\ rw.pc = "idle" /\ rw.msg.id < MaxCalls
    /\ rw' = [RwCall("request", [method |-> "", id |-> rw.msg.id + 1])
                  EXCEPT !.pc = "wait"]
    /\ UNCHANGED <<breaker, policy, now, openUntil, wakeAt, openedAt, streak, quiet>>

\* wait_if_open with open_until = None: nothing to do
BrWaitClosed ==
    /\ rw.pc = "wait" /\ ~breaker.open
    /\ rw' = [rw EXCEPT !.pc = "op"]
    /\ UNCHANGED <<breaker, policy, now, openUntil, wakeAt, openedAt, streak, quiet>>

\* wait_if_open with open_until = Some(until): sleep for what is left of it
BrWaitOpen ==
    /\ rw.pc = "wait" /\ breaker.open
    /\ wakeAt' = now + CooldownLeft(openUntil, now)
    /\ rw' = [rw EXCEPT !.pc = "cooldown"]
    /\ UNCHANGED <<breaker, policy, now, openUntil, openedAt, streak, quiet>>

\* wait_if_open after its sleep: open_until = None, consecutive_failures = 0
BrCooldownOver ==
    /\ rw.pc = "cooldown" /\ now >= wakeAt
    /\ breaker' = wait_if_open(breaker)
    /\ openUntil' = 0
    /\ streak' = 0
    /\ rw' = [rw EXCEPT !.pc = "op"]
    /\ UNCHANGED <<policy, now, wakeAt, openedAt, quiet>>

\* operation().await and its match; a failure that opens the breaker sets
\* open_until = Instant::now() + cooldown
BrOperation ==
    /\ rw.pc = "op"
    /\ \E ok \in BOOLEAN, delay \in BackoffDelays :
          LET after == RwAfterOperation(rw, ok, NoPayload)
              b == BreakerAfterOperation(breaker, ok)
          IN  /\ rw' = IF after.pc = "done" THEN after
                       ELSE [after EXCEPT !.pc = "sleep"]
              /\ breaker' = b
              /\ streak' = IF ok THEN 0 ELSE streak + 1
              /\ openUntil' = IF b.open THEN now + CooldownTicks ELSE 0
              /\ openedAt' = IF b.open THEN now ELSE openedAt
              /\ wakeAt' = IF after.pc = "done" THEN wakeAt ELSE now + delay
    /\ UNCHANGED <<policy, now, quiet>>

\* the sleep between two attempts is over
BrSleepOver ==
    /\ rw.pc = "sleep" /\ now >= wakeAt
    /\ rw' = [rw EXCEPT !.pc = "wait"]
    /\ UNCHANGED <<breaker, policy, now, openUntil, wakeAt, openedAt, streak, quiet>>

\* run_with_retry returns to its caller
BrReturn ==
    /\ rw.pc = "done"
    /\ rw' = [RwIdle EXCEPT !.msg = rw.msg]
    /\ UNCHANGED <<breaker, policy, now, openUntil, wakeAt, openedAt, streak, quiet>>

NextBreaker == Tick \/ BrCall \/ BrWaitClosed \/ BrWaitOpen \/ BrCooldownOver
               \/ BrOperation \/ BrSleepOver \/ BrReturn

SpecBreaker == InitBreaker /\ [][NextBreaker]_vars

\* C12: with failure_threshold = N > 0 the breaker is open exactly when N
\* failures were recorded in a row since the last success or since it last
\* closed: never with fewer, and at once with the N-th.  With N = 0 it never
\* opens.
C12_OpensAtThreshold ==
    /\ policy.failure_threshold > 0 =>
           /\ streak <= policy.failure_threshold
           /\ breaker.open <=> streak = policy.failure_threshold
    /\ policy.failure_threshold = 0 => ~breaker.open

\* the second failure in a row has just opened a breaker of threshold 2
C12_Witness ==
    /\ policy.failure_threshold >= 2 /\ streak = policy.failure_threshold
    /\ breaker.open /\ openedAt = now

\* C13: no attempt is issued while the breaker is open, and an attempt issued
\* after the breaker opened starts at least cooldown after the failure that
\* opened it.
C13_NoAttemptWhileOpen ==
    rw.pc = "op" =>
        /\ ~breaker.open
        /\ openedAt >= 0 => now >= openedAt + CooldownTicks

\* an attempt is about to be issued right when the cooldown has run out
C13_Witness ==
    /\ rw.pc = "op" /\ openedAt >= 0 /\ now = openedAt + CooldownTicks

\* ---- the methods of CircuitBreaker called directly, in any order
InitBreakerApi == /\ rw = RwIdle /\ breaker = BreakerNew /\ policy \in Policies
                  /\ TimeIdle /\ ToolIdle /\ ClientIdle /\ ExtIdle /\ GwIdle /\ IdIdle /\ GrpcIdle

\* one more call of a method; rw.label names the method, rw.calls counts
ApiCalled(method) ==
    /\ rw.calls < MaxApiCalls
    /\ rw' = [rw EXCEPT !.label = method, !.calls = @ + 1]
    /\ before' = breaker
    /\ UNCHANGED <<policy, now, openUntil, wakeAt, openedAt, streak, gwVars, idVars,
                   grpcVars, toolVars, clientVars, extVars>>

ApiRecordFailure ==
    /\ ApiCalled("record_failure")
    /\ breaker' = record_failure(breaker, policy)

ApiRecordSuccess ==
    /\ ApiCalled("record_success")
    /\ breaker' = record_success(breaker)

ApiWaitIfOpen ==
    /\ ApiCalled("wait_if_open")
    /\ breaker' = wait_if_open(breaker)

NextBreakerApi == ApiRecordFailure \/ ApiRecordSuccess \/ ApiWaitIfOpen

SpecBreakerApi == InitBreakerApi /\ [][NextBreakerApi]_vars

\* C14: after record_success the breaker is closed and its counter of
\* consecutive failures is zero, whatever it was before.
C14_SuccessCloses ==
    rw.label = "record_success" =>
        ~breaker.open /\ breaker.consecutive_failures = 0

\* record_success was called on an open breaker that had counted a failure
C14_Witness ==
    /\ rw.label = "record_success"
    /\ before.open /\ before.consecutive_failures >= 1

\* --------------------------------------- stdio->gRPC: the fan-in server
\* ids the clients put on their requests: the same string and the same number
ClientIds == {JStr(<<"1">>), JNum(1)}

\* ids of the messages the child sends on its own: a number, and a string with
\* a colon that is no client's tag
OwnIds == {JNum(7), JStr(<<"0", ":", "1">>)}

InitGrpc == /\ clients = {} /\ rxAlive = {}
            /\ readerPc = [c \in Tags |-> "none"]
            /\ sent = [c \in Tags |-> 0]
            /\ childIn = {} /\ childOut = <<>>
            /\ inbox = [c \in Tags |-> <<>>]
            /\ seq = 0 /\ childOwn = 0
            /\ rw = RwIdle /\ breaker = BreakerNew
            /\ policy = [max_retries |-> 0, failure_threshold |-> 0]
            /\ GwIdle /\ IdIdle /\ TimeIdle /\ ToolIdle /\ ClientIdle /\ ExtIdle

rest == <<idVars, gwVars, rwVars, timeVars, toolVars, clientVars, extVars>>

\* stream(): a new client gets its tag, its channel is put in the map and its
\* reader task is spawned
GrpcConnect(c) ==
    /\ readerPc[c] = "none"
    /\ clients' = clients \cup {c}
    /\ rxAlive' = rxAlive \cup {c}
    /\ readerPc' = [readerPc EXCEPT ![c] = "running"]
    /\ UNCHANGED <<sent, childIn, childOut, inbox, seq, childOwn, rest>>

\* the clients that are grpc_to_stdio gateways; the other one is some other
\* gRPC program, which may send envelopes that are empty or without an id
Gateways == {TagA}

\* faulty variant: the envelope's seq is left at its default
EnvelopeSeqUnset(old) == 0

\* `seq: seq.fetch_add(1, Ordering::SeqCst) + 1`: the envelope's seq, given the
\* value fetch_add returned
EnvelopeSeq(old) == old + 1

\* messages the clients have sent so far, all clients together
SentTotal == sent[TagA] + sent[TagB]

\* the reader task: an empty envelope or one that is not JSON, `continue`
ReaderSkips(c) ==
    /\ readerPc[c] = "running" /\ SentTotal < MaxClientMsgs
    /\ c \notin Gateways
    /\ sent' = [sent EXCEPT ![c] = @ + 1]
    /\ UNCHANGED <<clients, rxAlive, readerPc, childIn, childOut, inbox, seq, childOwn, rest>>

\* a client that is a grpc_to_stdio gateway puts a stdin request in an envelope
\* with the next seq of its counter (any other stdin line sends nothing).
\* the reader task: the id of a message that has one is replaced by
\* prefix_id(client_id, id) and the message is written to the child; a failed
\* write ends the task, which removes the client from the map (its channel
\* closes).  childIn holds the requests the child has not answered yet.
ReaderForwards(c) ==
    /\ readerPc[c] = "running" /\ SentTotal < MaxClientMsgs
    /\ sent' = [sent EXCEPT ![c] = @ + 1]
    /\ IF c \in Gateways
       THEN /\ gseq' = gseq + 1
            /\ outbound' = Append(outbound, [seq |-> EnvelopeSeq(gseq)])
       ELSE UNCHANGED <<gseq, outbound>>
    /\ \E id \in ClientIds \cup (IF c \in Gateways THEN {} ELSE {NoField}) :
          LET json == [id |-> IF id = NoField THEN NoField ELSE prefix_id(c, id),
                       orig |-> id, from |-> c]
          IN  \/ /\ childIn' = IF id = NoField THEN childIn ELSE childIn \cup {json}
                 /\ UNCHANGED <<clients, rxAlive, readerPc>>
              \/ /\ childIn' = childIn
                 /\ readerPc' = [readerPc EXCEPT ![c] = "leaving"]
                 /\ UNCHANGED <<clients, rxAlive>>
    /\ UNCHANGED <<childOut, inbox, seq, childOwn, idVars, gwVars, rwVars, timeVars,
                   toolVars, extVars>>

\* the reader task: incoming.message() returned Ok(None) or Err, `break`
ReaderStops(c) ==
    /\ readerPc[c] = "running"
    /\ readerPc' = [readerPc EXCEPT ![c] = "leaving"]
    /\ UNCHANGED <<clients, rxAlive, sent, childIn, childOut, inbox, seq, childOwn, rest>>

\* faulty variant: the task ends and leaves its entry in the map
ClientsKept(map, c) == map

\* `clients.remove(&client_id)`
ClientsRemove(map, c) == map \ {c}

\* the reader task after its loop: `clients.lock().await`, the client is
\* removed from the map (its channel closes) and the task ends
ReaderRemoves(c) ==
    /\ readerPc[c] = "leaving"
    /\ readerPc' = [readerPc EXCEPT ![c] = "ended"]
    /\ clients' = ClientsRemove(clients, c)
    /\ rxAlive' = IF c \in clients' THEN rxAlive ELSE rxAlive \ {c}
    /\ UNCHANGED <<sent, childIn, childOut, inbox, seq, childOwn, rest>>

\* a client of the map drops its response stream: the next send to it fails
ReceiverDropped(c) ==
    /\ c \in clients \cap rxAlive
    /\ rxAlive' = rxAlive \ {c}
    /\ UNCHANGED <<clients, readerPc, sent, childIn, childOut, inbox, seq,
                   childOwn, rest>>

\* the child answers a request it received, with the id it was given
ChildAnswers ==
    /\ \E req \in childIn :
          /\ childIn' = childIn \ {req}
          /\ childOut' = Append(childOut, [id |-> req.id, kind |-> "response",
                                           from |-> req.from, orig |-> req.orig])
    /\ UNCHANGED <<clients, rxAlive, readerPc, sent, inbox, seq, childOwn,
                   rest>>

\* the child sends a message of its own
ChildEmitsOwn ==
    /\ childOwn < MaxChildOwn
    /\ childOwn' = childOwn + 1
    /\ \E id \in OwnIds :
          childOut' = Append(childOut, [id |-> id, kind |-> "own", from |-> <<>>,
                                        orig |-> id])
    /\ UNCHANGED <<clients, rxAlive, readerPc, sent, childIn, inbox, seq,
                   rest>>

\* the clients an envelope is sent to: the tagged one if it is in the map,
\* nobody if it is not, every client of the map without a tag
RouteTo(stripped) ==
    IF stripped.some THEN clients \cap {stripped.client} ELSE clients

\* the router task: rx.recv() returned Ok(msg)
Route ==
    /\ childOut # <<>>
    /\ LET msg == Head(childOut)
           stripped == strip_prefixed_id(msg.id)
           envelope == [id |-> IF stripped.some THEN stripped.raw_id ELSE msg.id,
                        kind |-> msg.kind, from |-> msg.from, orig |-> msg.orig,
                        seq |-> EnvelopeSeq(seq)]
           to == RouteTo(stripped)
       IN  /\ inbox' = [c \in Tags |->
                           IF c \in to \cap rxAlive THEN Append(inbox[c], envelope)
                           ELSE inbox[c]]
           /\ clients' = clients \ (to \ rxAlive)
    /\ childOut' = Tail(childOut)
    /\ seq' = seq + 1
    /\ UNCHANGED <<rxAlive, readerPc, sent, childIn, childOwn, rest>>

\* the router task: rx.recv() returned Lagged, the oldest output is lost
RouteLagged ==
    /\ Len(childOut) >= 2
    /\ childOut' = Tail(childOut)
    /\ UNCHANGED <<clients, rxAlive, readerPc, sent, childIn, inbox, seq,
                   childOwn, rest>>

NextGrpc == \/ \E c \in Tags : \/ GrpcConnect(c) \/ ReaderSkips(c)
                               \/ ReaderForwards(c) \/ ReaderStops(c)
                               \/ ReaderRemoves(c) \/ ReceiverDropped(c)
            \/ ChildAnswers \/ ChildEmitsOwn \/ Route \/ RouteLagged

SpecGrpc == InitGrpc /\ [][NextGrpc]_vars

\* C3: a client is never given the child's response to a request of another
\* client, also when both clients used the same id.
C3_NoCrossDelivery ==
    \A c \in Tags : \A i \in 1..Len(inbox[c]) :
        inbox[c][i].kind = "response" => inbox[c][i].from = c

\* both clients sent a request with the same id and each got its response
C3_Witness ==
    \E id \in ClientIds : \A c \in Tags : \E i \in 1..Len(inbox[c]) :
        /\ inbox[c][i].kind = "response" /\ inbox[c][i].orig = id

\* C5 (as stated): an output of the child whose id carries no tag of a connected
\* client is delivered to every connected client: the step of the router that
\* takes such an output appends it to the stream of every client of the map
\* whose stream is open.
C5_UnknownTagBroadcast ==
    [][(childOut # <<>> /\ seq' = seq + 1) =>
          LET stripped == strip_prefixed_id(Head(childOut).id)
          IN  (~stripped.some \/ stripped.client \notin clients) =>
                  \A c \in clients \cap rxAlive : Len(inbox'[c]) = Len(inbox[c]) + 1]_vars

\* ----------------------------------------------------- *->stdio gateways
is_request(m) == m.method # "" /\ m.id # 0
is_initialize_request(m) == m.method = "initialize"

\* the JSON messages the caller may write as stdin line k; requests carry the
\* unique id k
StdinMessages(k) == {[method |-> "initialize", id |-> k],
                     [method |-> "tools/list", id |-> k],
                     [method |-> "notifications/cancelled", id |-> 0]}

\* faulty variant: the synthesized id is taken from the caller's id space
auto_init_id_caller(k) == k + 1

\* auto_init_id(): "init_<millis>_<uuid>", distinct from every caller id
auto_init_id(k) == 0 - (k + 1)
create_initialize_request(id) == [method |-> "initialize", id |-> id]
create_initialized_notification == [method |-> "notifications/initialized", id |-> 0]

\* faulty variant: the envelope takes the id found in the payload
wrap_response_payload_id(req, pl) ==
    [src |-> "loop", id |-> pl.of, kind |-> pl.kind, code |-> pl.code, of |-> pl.of,
     method |-> ""]

\* wrap_response: {jsonrpc, id} of the request around the payload's result or error
wrap_response(req, pl) ==
    [src |-> "loop", id |-> req.id, kind |-> pl.kind, code |-> pl.code, of |-> pl.of,
     method |-> ""]

\* println!("{}", message) of a stdin message that is not a request
EchoLine(m) == [src |-> "loop", id |-> m.id, kind |-> "echo", code |-> 0, of |-> 0,
                method |-> m.method]

\* println!("{}", json) of a JSON event (or frame) that came from the server
StreamLine(e) == [src |-> "stream", id |-> e.id, kind |-> e.kind, code |-> e.code,
                  of |-> e.of, method |-> e.method]

\* what the server sends for request m: its result or its JSON-RPC error
ServerResult(m) == [kind |-> "result", code |-> 0, of |-> m.id]
ServerError(m) == [kind |-> "error", code |-> 0 - 32601, of |-> m.id]
ResponseEvent(m, pl) == [type |-> "data", id |-> m.id, kind |-> pl.kind,
                         code |-> pl.code, of |-> pl.of, method |-> ""]
EndpointEvent == [type |-> "endpoint", id |-> 0, kind |-> "", code |-> 0, of |-> 0,
                  method |-> ""]
BadEvent == [type |-> "bad", id |-> 0, kind |-> "", code |-> 0, of |-> 0,
             method |-> ""]

InitGw == /\ gw \in {"sse", "http", "ws"}
          /\ pc = "read" /\ nread = 0 /\ inbound = <<>> /\ message = NoMessage
          /\ initialized = FALSE /\ payload = NoPayload /\ stdout = <<>>
          /\ peer = <<>> /\ endpoint = FALSE /\ sessionId = FALSE
          /\ streamPc = IF gw = "ws" THEN "open" ELSE "connecting"
          /\ stream = <<>> /\ nextInit = 0 /\ emitted = <<>> /\ faults = 0 /\ answers = {}
          /\ rw = RwIdle /\ breaker = BreakerNew /\ policy \in GwPolicies
          /\ IdIdle /\ GrpcIdle /\ TimeIdle /\ ToolIdle /\ ClientIdle /\ ExtIdle

others == <<idVars, grpcVars, timeVars, toolVars, clientVars, extVars>>

\* ---- the stdin loop of sse_to_stdio::run and streamable_http_to_stdio::run

\* an empty line, or a line that is not JSON: `continue`
ReadSkippedLine ==
    /\ gw \in {"sse", "http"} /\ pc = "read" /\ nread < MaxLines
    /\ nread' = nread + 1
    /\ UNCHANGED <<gw, pc, inbound, message, initialized, payload, stdout, peer,
                   endpoint, sessionId, streamPc, stream, nextInit, emitted, faults, answers,
                   rwVars, others>>

\* a stdin message that is not a request is printed on stdout: `continue`
ReadNonRequest ==
    /\ gw \in {"sse", "http"} /\ pc = "read" /\ nread < MaxLines
    /\ \E m \in StdinMessages(nread + 1) :
          /\ ~is_request(m)
          /\ inbound' = Append(inbound, m)
          /\ stdout' = Append(stdout, EchoLine(m))
    /\ nread' = nread + 1
    /\ UNCHANGED <<gw, pc, message, initialized, payload, peer, endpoint,
                   sessionId, streamPc, stream, nextInit, emitted, faults, answers, rwVars, others>>

\* faulty variant: the request is forwarded at once
DispatchDirect(m) ==
    /\ rw' = RwCall("request", m)
    /\ nextInit' = nextInit
    /\ pc' = "request"

\* `if !initialized && !is_initialize_request(&message)`: send_request of a
\* synthesized initialize first; otherwise send_request of the message itself
Dispatch(m) ==
    IF ~initialized /\ ~is_initialize_request(m)
    THEN /\ rw' = RwCall("request", create_initialize_request(auto_init_id(nextInit)))
         /\ nextInit' = nextInit + 1
         /\ pc' = "autoinit"
    ELSE /\ rw' = RwCall("request", m)
         /\ nextInit' = nextInit
         /\ pc' = "request"

\* a request: sse waits for the message endpoint first, streamable-http
\* handles it at once
ReadRequest ==
    /\ gw \in {"sse", "http"} /\ pc = "read" /\ nread < MaxLines
    /\ \E m \in StdinMessages(nread + 1) :
          /\ is_request(m)
          /\ inbound' = Append(inbound, m)
          /\ message' = m
          /\ IF gw = "sse"
             THEN pc' = "endpoint" /\ UNCHANGED <<rw, nextInit>>
             ELSE Dispatch(m)
    /\ nread' = nread + 1
    /\ UNCHANGED <<gw, initialized, payload, stdout, peer, endpoint, sessionId,
                   streamPc, stream, emitted, faults, answers, breaker, policy, others>>

\* ws: stdin_lines.next() returned None, run returns Ok(()) and the process ends
WsStdinEof ==
    /\ gw = "ws" /\ pc = "read"
    /\ pc' = "exit"
    /\ UNCHANGED <<gw, nread, inbound, message, initialized, payload, stdout, peer,
                   endpoint, sessionId, streamPc, stream, nextInit, emitted, faults, answers,
                   rwVars, others>>

\* wait_for_message_endpoint returned Ok(url)
WaitEndpointOk ==
    /\ pc = "endpoint" /\ endpoint
    /\ Dispatch(message)
    /\ UNCHANGED <<gw, nread, inbound, message, initialized, payload, stdout, peer,
                   endpoint, sessionId, streamPc, stream, emitted, faults, answers, breaker,
                   policy, others>>

WaitEndpointTimeoutSends ==
    /\ pc = "endpoint" /\ ~endpoint
    /\ Dispatch(message)
    /\ UNCHANGED <<gw, nread, inbound, message, initialized, payload, stdout, peer,
                   endpoint, sessionId, streamPc, stream, emitted, faults, answers, breaker,
                   policy, others>>

\* wait_for_message_endpoint timed out: an error envelope, the request is not sent
WaitEndpointTimeout ==
    /\ pc = "endpoint" /\ ~endpoint
    /\ stdout' = Append(stdout, wrap_response(message, error_payload))
    /\ message' = NoMessage
    /\ pc' = "read"
    /\ UNCHANGED <<gw, nread, inbound, initialized, payload, peer,
                   endpoint, sessionId, streamPc, stream, nextInit, emitted, faults, answers,
                   rwVars, others>>

\* the operation of send_request: one POST of rw.msg and parse_response_payload
PostRequest ==
    /\ gw \in {"sse", "http"} /\ rw.pc = "run" /\ rw.label = "request"
    /\ \/ \* req.send() failed: nothing reached the server
          /\ faults < MaxFaults /\ faults' = faults + 1
          /\ RwIteration(FALSE, NoPayload)
          /\ UNCHANGED <<peer, stream, emitted, sessionId, answers>>
       \/ \* 2xx, the JSON body holds the result
          /\ RwIteration(TRUE, ServerResult(rw.msg))
          /\ peer' = Append(peer, rw.msg)
          /\ sessionId' = (sessionId \/ (gw = "http" /\ is_initialize_request(rw.msg)))
          /\ answers' = answers \cup {[id |-> rw.msg.id, via |-> "body"]}
          /\ UNCHANGED <<stream, emitted, faults>>
       \/ \* the JSON body holds a JSON-RPC error
          /\ RwIteration(TRUE, ServerError(rw.msg))
          /\ peer' = Append(peer, rw.msg)
          /\ answers' = answers \cup {[id |-> rw.msg.id, via |-> "body"]}
          /\ UNCHANGED <<stream, emitted, faults, sessionId>>
       \/ \* non-2xx without a JSON-RPC error, or a body that is not JSON
          /\ faults < MaxFaults /\ faults' = faults + 1
          /\ RwIteration(FALSE, NoPayload)
          /\ peer' = Append(peer, rw.msg)
          /\ UNCHANGED <<stream, emitted, sessionId, answers>>
       \/ \* 2xx with an empty body ("Empty response"): the server answers on
          \* the event stream
          /\ streamPc = "open"
          /\ faults < MaxFaults /\ faults' = faults + 1
          /\ RwIteration(FALSE, NoPayload)
          /\ peer' = Append(peer, rw.msg)
          /\ stream' = Append(stream, ResponseEvent(rw.msg, ServerResult(rw.msg)))
          /\ emitted' = Append(emitted, ResponseEvent(rw.msg, ServerResult(rw.msg)))
          /\ answers' = answers \cup {[id |-> rw.msg.id, via |-> "stream"]}
          /\ UNCHANGED sessionId
    /\ UNCHANGED <<gw, pc, nread, inbound, message, initialized, payload, stdout,
                   endpoint, streamPc, nextInit, policy, others>>

\* the operation of send_initialized_notification: one POST of the notification
PostNotification ==
    /\ gw \in {"sse", "http"} /\ rw.pc = "run" /\ rw.label = "notification"
    /\ \/ \* req.send() failed
          /\ faults < MaxFaults /\ faults' = faults + 1
          /\ RwIteration(FALSE, NoPayload)
          /\ UNCHANGED peer
       \/ \* response.status().is_success()
          /\ RwIteration(TRUE, NoPayload)
          /\ peer' = Append(peer, rw.msg)
          /\ UNCHANGED faults
       \/ \* "Initialized notification failed with status ..."
          /\ faults < MaxFaults /\ faults' = faults + 1
          /\ RwIteration(FALSE, NoPayload)
          /\ peer' = Append(peer, rw.msg)
    /\ UNCHANGED <<gw, pc, nread, inbound, message, initialized, payload, stdout,
                   endpoint, sessionId, streamPc, stream, nextInit, emitted, answers,
                   policy, others>>

\* after the synthesized initialize: its error answers the request, else
\* send_initialized_notification
AutoInitDone ==
    /\ pc = "autoinit" /\ rw.pc = "done"
    /\ IF rw.value.kind = "error"
       THEN /\ stdout' = Append(stdout, wrap_response(message, rw.value))
            /\ rw' = RwIdle
            /\ message' = NoMessage
            /\ pc' = "read"
       ELSE /\ stdout' = stdout
            /\ rw' = RwCall("notification", create_initialized_notification)
            /\ message' = message
            /\ pc' = "autonotif"
    /\ UNCHANGED <<gw, nread, inbound, initialized, payload, peer, endpoint,
                   sessionId, streamPc, stream, nextInit, emitted, faults, answers, breaker, policy,
                   others>>

\* faulty variant: `initialized = true` whatever the notification returned
NotificationReturned(call) == TRUE

\* `if let Err(err) = send_initialized_notification(..).await { .. } else
\* { initialized = true; }`
NotificationSucceeded(call) == call.result = "ok"

\* `initialized = true` unless the notification failed; then send_request(message)
AutoNotifDone ==
    /\ pc = "autonotif" /\ rw.pc = "done"
    /\ initialized' = NotificationSucceeded(rw)
    /\ rw' = RwCall("request", message)
    /\ pc' = "request"
    /\ UNCHANGED <<gw, nread, inbound, message, payload, stdout, peer, endpoint,
                   sessionId, streamPc, stream, nextInit, emitted, faults, answers, breaker, policy,
                   others>>

\* send_request(message) returned: a successful initialize is followed by the
\* notification, every other payload is wrapped and printed
RequestDone ==
    /\ pc = "request" /\ rw.pc = "done"
    /\ IF is_initialize_request(message) /\ rw.value.kind # "error" /\ ~initialized
       THEN /\ rw' = RwCall("notification", create_initialized_notification)
            /\ payload' = rw.value
            /\ stdout' = stdout
            /\ message' = message
            /\ pc' = "postnotif"
       ELSE /\ rw' = RwIdle
            /\ payload' = NoPayload
            /\ stdout' = Append(stdout, wrap_response(message, rw.value))
            /\ message' = NoMessage
            /\ pc' = "read"
    /\ UNCHANGED <<gw, nread, inbound, initialized, peer, endpoint,
                   sessionId, streamPc, stream, nextInit, emitted, faults, answers, breaker, policy,
                   others>>

\* the notification after a forwarded initialize returned; the response is printed
PostNotifDone ==
    /\ pc = "postnotif" /\ rw.pc = "done"
    /\ initialized' = NotificationSucceeded(rw)
    /\ stdout' = Append(stdout, wrap_response(message, payload))
    /\ rw' = RwIdle
    /\ message' = NoMessage
    /\ payload' = NoPayload
    /\ pc' = "read"
    /\ UNCHANGED <<gw, nread, inbound, peer, endpoint, sessionId,
                   streamPc, stream, nextInit, emitted, faults, answers, breaker, policy, others>>

\* ---- the event stream task (tokio::spawn in run)

\* the GET of the event stream: sse sends it at once and gives up when it fails;
\* streamable-http waits for a session id and retries after a failure
StreamConnect ==
    /\ pc # "exit" /\ streamPc = "connecting"
    /\ \/ /\ gw = "sse"
          /\ \/ /\ streamPc' = "open"
                /\ stream' = <<EndpointEvent>>
             \/ /\ streamPc' = "ended"
                /\ stream' = stream
       \/ /\ gw = "http" /\ sessionId
          /\ streamPc' = "open"
          /\ stream' = <<>>
    /\ UNCHANGED <<gw, pc, nread, inbound, message, initialized, payload, stdout,
                   peer, endpoint, sessionId, nextInit, emitted, faults, answers, rwVars, others>>

\* stream.next() returned Ok(event): the endpoint event sets message_endpoint,
\* a JSON data event is printed on stdout
StreamEvent ==
    /\ gw \in {"sse", "http"} /\ pc # "exit" /\ streamPc = "open" /\ stream # <<>>
    /\ stream' = Tail(stream)
    /\ IF Head(stream).type = "endpoint"
       THEN /\ endpoint' = TRUE
            /\ stdout' = stdout
       ELSE /\ endpoint' = endpoint
            /\ stdout' = Append(stdout, StreamLine(Head(stream)))
    /\ UNCHANGED <<gw, pc, nread, inbound, message, initialized, payload, peer,
                   sessionId, streamPc, nextInit, emitted, faults, answers, rwVars, others>>

\* stream.next() returned Err or None: sse leaves the loop and the task ends,
\* streamable-http goes round its outer loop
StreamError ==
    /\ gw \in {"sse", "http"} /\ pc # "exit" /\ streamPc = "open"
    /\ streamPc' = IF gw = "sse" THEN "ended" ELSE "connecting"
    /\ stream' = <<>>
    /\ UNCHANGED <<gw, pc, nread, inbound, message, initialized, payload, stdout,
                   peer, endpoint, sessionId, nextInit, emitted, faults, answers, rwVars, others>>

\* ---- ws_to_stdio::run, the select loop

\* the stdin arm: blank and invalid lines are skipped
WsSkippedLine ==
    /\ gw = "ws" /\ pc = "read" /\ nread < MaxLines
    /\ nread' = nread + 1
    /\ UNCHANGED <<gw, pc, inbound, message, initialized, payload, stdout, peer,
                   endpoint, sessionId, streamPc, stream, nextInit, emitted, faults, answers,
                   rwVars, others>>

\* the stdin arm: a message that is not a request is printed on stdout, a
\* request is written to the socket (a failed write ends run with Err)
WsStdin ==
    /\ gw = "ws" /\ pc = "read" /\ nread < MaxLines
    /\ nread' = nread + 1
    /\ \E m \in StdinMessages(nread + 1) :
          /\ inbound' = Append(inbound, m)
          /\ IF ~is_request(m)
             THEN /\ stdout' = Append(stdout, EchoLine(m))
                  /\ UNCHANGED <<peer, pc>>
             ELSE /\ stdout' = stdout
                  /\ \/ peer' = Append(peer, m) /\ pc' = pc
                     \/ peer' = peer /\ pc' = "exit"
    /\ UNCHANGED <<gw, message, initialized, payload, endpoint, sessionId,
                   streamPc, stream, nextInit, emitted, faults, answers, rwVars, others>>

\* ids of the requests the peer has received and not yet answered
Unanswered == {peer[i].id : i \in 1..Len(peer)} \ {emitted[i].id : i \in 1..Len(emitted)}

\* the peer answers one of the requests it received, in any order, or sends a
\* text frame that is not JSON
WsPeerSends ==
    /\ gw = "ws" /\ pc = "read"
    /\ \/ \E i \in 1..Len(peer) :
             /\ peer[i].id \in Unanswered
             /\ stream' = Append(stream, ResponseEvent(peer[i], ServerResult(peer[i])))
             /\ emitted' = Append(emitted, ResponseEvent(peer[i], ServerResult(peer[i])))
       \/ /\ \A i \in 1..Len(stream) : stream[i].type # "bad"
          /\ stream' = Append(stream, BadEvent)
          /\ emitted' = emitted
    /\ UNCHANGED <<gw, pc, nread, inbound, message, initialized, payload, stdout,
                   peer, endpoint, sessionId, streamPc, nextInit, faults, answers, rwVars,
                   others>>

\* the socket arm: handle_incoming_frame prints a JSON frame; a frame that is
\* not JSON makes run return Err
WsFrame ==
    /\ gw = "ws" /\ pc = "read" /\ stream # <<>>
    /\ stream' = Tail(stream)
    /\ IF Head(stream).type = "bad"
       THEN /\ pc' = "exit"
            /\ stdout' = stdout
       ELSE /\ pc' = pc
            /\ stdout' = Append(stdout, StreamLine(Head(stream)))
    /\ UNCHANGED <<gw, nread, inbound, message, initialized, payload, peer, endpoint,
                   sessionId, streamPc, nextInit, emitted, faults, answers, rwVars, others>>

\* the socket arm: a Close frame or the end of the stream ends run with Err
WsClosed ==
    /\ gw = "ws" /\ pc = "read" /\ stream = <<>>
    /\ pc' = "exit"
    /\ UNCHANGED <<gw, nread, inbound, message, initialized, payload, stdout, peer,
                   endpoint, sessionId, streamPc, stream, nextInit, emitted, faults, answers,
                   rwVars, others>>

NextGw == \/ ReadSkippedLine \/ ReadNonRequest \/ ReadRequest
          \/ WaitEndpointOk \/ WaitEndpointTimeout
          \/ PostRequest \/ PostNotification
          \/ AutoInitDone \/ AutoNotifDone \/ RequestDone \/ PostNotifDone
          \/ StreamConnect \/ StreamEvent \/ StreamError
          \/ WsSkippedLine \/ WsStdin \/ WsStdinEof \/ WsPeerSends \/ WsFrame
          \/ WsClosed

SpecGw == InitGw /\ [][NextGw]_vars

\* ----------------------------------------- properties of the gateways
RECURSIVE SeqIds(_)
\* the ids of a sequence of messages or lines
SeqIds(q) == IF q = <<>> THEN <<>> ELSE <<Head(q).id>> \o SeqIds(Tail(q))

RECURSIVE Dedupe(_)
\* a sequence with only the first occurrence of each element kept
Dedupe(q) == IF q = <<>> THEN <<>>
             ELSE LET front == Dedupe(SubSeq(q, 1, Len(q) - 1))
                      x == q[Len(q)]
                  IN  IF \E i \in 1..Len(front) : front[i] = x THEN front
                      ELSE Append(front, x)

IsCallerRequest(m) == is_request(m) /\ m.id > 0
IsEnvelope(l) == l.kind \in {"result", "error"}
IsForwardable(m) == m.method = "notifications/cancelled"
IsStreamLine(l) == l.src = "stream"
IsDataEvent(e) == e.type = "data"

\* the caller's requests read so far, and those the stdin loop has left behind
Requests == SelectSeq(inbound, IsCallerRequest)
Handled(i) == /\ \E k \in 1..Len(Requests) : Requests[k].id = i
              /\ message.id # i
\* the stdout lines that carry id i
LinesOf(i) == {k \in 1..Len(stdout) : IsEnvelope(stdout[k]) /\ stdout[k].id = i}

\* C1 (as stated): in sse->stdio and streamable-http->stdio every request gets
\* exactly one response envelope with its id on stdout: never two, and one once
\* the request has been handled, also when the call failed or the server
\* answered on the event stream.
C1_ExactlyOneEnvelope ==
    gw \in {"sse", "http"} =>
        \A k \in 1..Len(Requests) :
            /\ Cardinality(LinesOf(Requests[k].id)) <= 1
            /\ Handled(Requests[k].id) => Cardinality(LinesOf(Requests[k].id)) = 1

\* C2 (as stated): a response is accepted whether it came in the POST body or on
\* the event stream: a request the server answered is not reported as failed
\* to the caller (no -32000 envelope made by the gateway carries its id), and an
\* answer in the body is on stdout under the request's id.
C2_AnswerAccepted ==
    gw = "sse" =>
        \A a \in answers :
            (a.id > 0 /\ Handled(a.id)) =>
                /\ \A k \in LinesOf(a.id) : stdout[k].code # error_payload.code
                /\ a.via = "body" => \E k \in LinesOf(a.id) : stdout[k].of = a.id

\* C6 (as stated): every notification read on the inbound side has been
\* forwarded to the outbound peer, in arrival order.
C6_NotificationsForwarded ==
    pc = "read" => SelectSeq(inbound, IsForwardable) = SelectSeq(peer, IsForwardable)

\* the caller's requests in the order the peer first saw them
Written == Dedupe(SeqIds(SelectSeq(peer, IsCallerRequest)))
IsWrittenLine(l) == IsEnvelope(l) /\ \E i \in 1..Len(Written) : Written[i] = l.id
WrittenPos(i) == CHOOSE k \in 1..Len(Written) : Written[k] = i

\* C7 (as stated): the response envelopes on stdout follow the order in which
\* their requests were written to the peer.  In sse and streamable-http, where
\* the server answers each POST when it receives it, an envelope of an earlier
\* request never comes after an envelope of a later one; in ws, where the peer
\* answers in the order it likes, the frames are printed in the order the peer
\* sent them.
C7_ResponsesInRequestOrder ==
    /\ gw \in {"sse", "http"} =>
           LET out == SeqIds(SelectSeq(stdout, IsWrittenLine))
           IN  \A a, b \in 1..Len(out) :
                   a < b => WrittenPos(out[a]) <= WrittenPos(out[b])
    /\ gw = "ws" =>
           SeqIds(SelectSeq(stdout, IsStreamLine)) \o SeqIds(SelectSeq(stream, IsDataEvent))
               = SeqIds(emitted)

C9_NotificationSentOnce == rw.label = "notification" => rw.calls <= 1

\* send_request has returned after its last allowed attempt failed
RequestExhausted ==
    /\ rw.pc = "done" /\ rw.label = "request" /\ rw.result = "err"
    /\ rw.calls = policy.max_retries + 1

\* C11: when send_request returns with its retries exhausted, the next step of
\* the stdin loop prints a JSON-RPC error with code -32000 under the id of the
\* stdin request being handled (also when the exhausted request is the
\* synthesized initialize).
C11_ExhaustedGivesError ==
    [][(RequestExhausted /\ pc' # pc) =>
          /\ Len(stdout') = Len(stdout) + 1
          /\ stdout'[Len(stdout')].id = message.id
          /\ stdout'[Len(stdout')].kind = "error"
          /\ stdout'[Len(stdout')].code = 0 - 32000]_vars

\* a request was tried twice, both attempts failed, and its error is on stdout
C11_Witness ==
    /\ policy.max_retries >= 1 /\ faults >= 2 /\ rw.pc = "idle"
    /\ Len(peer) >= 2 /\ peer[1].id > 0 /\ peer[2] = peer[1]
    /\ \E k \in 1..Len(stdout) :
          /\ stdout[k].src = "loop" /\ stdout[k].id = peer[1].id
          /\ stdout[k].code = 0 - 32000

\* the stdin loop starts forwarding a request that is not an initialize while
\* `initialized` is false
ForwardsUninitialized ==
    /\ pc' = "request" /\ pc # "request"
    /\ ~is_initialize_request(message') /\ ~initialized

\* the synthesized initialize of this round reached the server and was answered
\* in the body
SynthesizedAnswered ==
    \E j \in 1..Len(peer) :
        /\ peer[j] = create_initialize_request(auto_init_id(nextInit - 1))
        /\ [id |-> peer[j].id, via |-> "body"] \in answers
        /\ rw.result = "ok" => j < Len(peer)

\* C15: in sse and streamable-http a request that is not an initialize and
\* arrives while the gateway is not initialized is forwarded only after a
\* synthesized initialize was sent and answered and after the POST of
\* notifications/initialized was made (when that POST succeeded, the
\* notification is the last thing the server saw, after the initialize).
C15_AutoInitializeFirst ==
    [][ForwardsUninitialized =>
          /\ pc = "autonotif" /\ rw.pc = "done"
          /\ rw.label = "notification" /\ rw.calls >= 1
          /\ SynthesizedAnswered
          /\ rw.result = "ok" => peer[Len(peer)] = create_initialized_notification]_vars

\* the request is about to be POSTed after the synthesized handshake
C15_Witness ==
    /\ gw \in {"sse", "http"} /\ pc = "request" /\ rw.pc = "run" /\ rw.calls = 0
    /\ rw.msg.method = "tools/list" /\ initialized
    /\ Len(peer) = 2 /\ peer[1] = create_initialize_request(auto_init_id(0))
    /\ peer[2] = create_initialized_notification

\* no stdout line carries the id of a synthesized initialize
SynthesizedIdHidden == \A k \in 1..Len(stdout) : stdout[k].id >= 0

\* no stdout line carries what the server answered to a synthesized initialize
SynthesizedPayloadHidden == \A k \in 1..Len(stdout) : stdout[k].of >= 0

\* C16 (as stated): the synthesized initialize is transparent to the caller: no
\* stdout line carries its id or the payload the server gave for it.
C16_SynthesizedTransparent == SynthesizedIdHidden /\ SynthesizedPayloadHidden

\* the step takes a message that is not JSON off the peer's stream
TakesMalformed == /\ stream # <<>>
                  /\ Head(stream).type = "bad"
                  /\ stream' = Tail(stream)

\* C17 (as stated): a malformed message from the peer is dropped for that
\* message only: nothing is written for it and the gateway keeps running, so
\* the later messages of the peer are still read.
C17_MalformedDropped ==
    [][TakesMalformed => /\ stdout' = stdout
                         /\ pc' = pc
                         /\ pc' # "exit"]_vars

\* the wait for the message endpoint of the request in `message` ends while no
\* endpoint event has been received
EndpointWaitEnds == pc = "endpoint" /\ ~endpoint /\ pc' # pc

\* C18: in sse->stdio a request whose wait for the endpoint event times out is
\* answered with a JSON-RPC error -32000 under the request's id, and nothing is
\* sent to the server for it.
C18_EndpointTimeoutFails ==
    [][EndpointWaitEnds =>
          /\ gw = "sse"
          /\ Len(stdout') = Len(stdout) + 1
          /\ SubSeq(stdout', 1, Len(stdout)) = stdout
          /\ stdout'[Len(stdout')].id = message.id
          /\ stdout'[Len(stdout')].kind = "error"
          /\ stdout'[Len(stdout')].code = 0 - 32000
          /\ peer' = peer
          /\ rw' = rw
          /\ pc' = "read"]_vars

C18_Witness ==
    /\ gw = "sse" /\ ~endpoint /\ pc = "read" /\ Len(inbound) = 1
    /\ inbound[1].id > 0 /\ is_request(inbound[1])
    /\ peer = <<>> /\ rw.calls = 0
    /\ stdout = <<wrap_response(inbound[1], error_payload)>>

\* ------------------------------------------------ tool_api: pending slots
\* SseTransport / WsTransport: send_request inserts a oneshot sender under the
\* request's id key, the reader task removes it when a response with that key
\* arrives. ToolClient owns the transport (&mut self): one call at a time.

ResponseIds == 0..MaxRequests

InitTool == /\ transport \in {"sse", "ws"}
            /\ request_seq = 0 /\ pending = {} /\ slot = NoSlot /\ tcall = NoCall
            /\ received = {} /\ copies = [i \in ResponseIds |-> 0]
            /\ wire = <<>> /\ handled = <<>> /\ delivered = <<>>
            /\ rw = RwIdle /\ breaker = BreakerNew /\ policy = [max_retries |-> 0,
                                                                failure_threshold |-> 0]
            /\ GwIdle /\ IdIdle /\ GrpcIdle /\ TimeIdle /\ ClientIdle /\ ExtIdle

calm == <<idVars, gwVars, rwVars, grpcVars, timeVars, clientVars, extVars>>

\* the reader task keeps the sender in the map (a lookup instead of a remove)
PendingKept(p, key) == p

\* `pending.lock().await.remove(&id_key)`
PendingRemove(p, key) == p \ {key}

\* the request goes out with no sender in the map
PendingInsertSkipped(p, key) == p

\* `self.pending.lock().await.insert(request_id.clone(), tx)`
PendingInsert(p, key) == p \cup {key}

\* next_request_id, `pending.insert(request_id, tx)`, then the request goes
\* out: post_json is started (sse) or writer.send succeeded (ws)
SendRequest ==
    /\ tcall.pc = "idle" /\ request_seq < MaxRequests
    /\ request_seq' = request_seq + 1
    /\ pending' = PendingInsert(pending, request_seq')
    /\ slot' = NoSlot
    /\ received' = received \cup {request_seq'}
    /\ tcall' = [pc |-> IF transport = "sse" THEN "posting" ELSE "waiting",
                 id |-> request_seq']
    /\ UNCHANGED <<transport, copies, wire, handled, delivered, calm>>

\* writer.send failed (ws) or post_json returned Err (sse): the slot is
\* removed and the call returns the error
SendFails ==
    /\ \/ /\ transport = "ws" /\ tcall.pc = "idle" /\ request_seq < MaxRequests
          /\ request_seq' = request_seq + 1
          /\ pending' = PendingRemove(PendingInsert(pending, request_seq'), request_seq')
          /\ received' = received
       \/ /\ transport = "sse" /\ tcall.pc = "posting"
          /\ request_seq' = request_seq
          /\ pending' = PendingRemove(pending, tcall.id)
          /\ received' = received
    /\ tcall' = NoCall
    /\ UNCHANGED <<transport, slot, copies, wire, handled, delivered, calm>>

\* sse: post_json returned Ok(Some(payload)): the slot is removed and the
\* body is the call's result
PostReturnsBody ==
    /\ transport = "sse" /\ tcall.pc = "posting"
    /\ pending' = PendingRemove(pending, tcall.id)
    /\ delivered' = Append(delivered, [call |-> tcall.id, id |-> tcall.id, copy |-> 0,
                                       via |-> "body"])
    /\ tcall' = NoCall
    /\ UNCHANGED <<transport, request_seq, slot, received, copies, wire, handled, calm>>

\* sse: post_json returned Ok(None): the call waits on its receiver
PostReturnsNone ==
    /\ transport = "sse" /\ tcall.pc = "posting"
    /\ tcall' = [tcall EXCEPT !.pc = "waiting"]
    /\ UNCHANGED <<transport, request_seq, pending, slot, received, copies, wire, handled,
                   delivered, calm>>

\* the server puts a response on the stream: to a request it has received
\* (again and again, at any later time), or with an id nobody asked for (0)
ServerResponds ==
    /\ \E i \in received \cup {0} :
          /\ Len(handled) + Len(wire) < MaxResponses
          /\ copies' = [copies EXCEPT ![i] = @ + 1]
          /\ wire' = Append(wire, [id |-> i, copy |-> copies[i] + 1])
    /\ UNCHANGED <<transport, request_seq, pending, slot, tcall, received, handled,
                   delivered, calm>>

\* the reader task takes one response: `if let Some(tx) = pending.remove(&id_key)
\* { let _ = tx.send(payload); }`, else nothing
ReaderTakes ==
    /\ wire # <<>>
    /\ wire' = Tail(wire)
    /\ IF Head(wire).id \in pending
       THEN /\ pending' = PendingRemove(pending, Head(wire).id)
            /\ slot' = Head(wire)
            /\ handled' = Append(handled, [id |-> Head(wire).id, copy |-> Head(wire).copy,
                                           outcome |-> "resolved"])
       ELSE /\ pending' = pending
            /\ slot' = slot
            /\ handled' = Append(handled, [id |-> Head(wire).id, copy |-> Head(wire).copy,
                                           outcome |-> "dropped"])
    /\ UNCHANGED <<transport, request_seq, tcall, received, copies, delivered, calm>>

\* `timeout(timeout, rx).await` is Ok(Ok(payload)): the call returns it
AwaitResolved ==
    /\ tcall.pc = "waiting" /\ slot # NoSlot
    /\ delivered' = Append(delivered, [call |-> tcall.id, id |-> slot.id,
                                       copy |-> slot.copy, via |-> "slot"])
    /\ slot' = NoSlot
    /\ tcall' = NoCall
    /\ UNCHANGED <<transport, request_seq, pending, received, copies, wire, handled, calm>>

\* the timeout elapsed with nothing in the receiver
AwaitTimesOut ==
    /\ tcall.pc = "waiting" /\ slot = NoSlot
    /\ tcall' = [tcall EXCEPT !.pc = "timedout"]
    /\ UNCHANGED <<transport, request_seq, pending, slot, received, copies, wire, handled,
                   delivered, calm>>

\* `self.pending.lock().await.remove(&request_id)`, the call returns Err
TimeoutRemoves ==
    /\ tcall.pc = "timedout"
    /\ pending' = PendingRemove(pending, tcall.id)
    /\ slot' = NoSlot
    /\ tcall' = NoCall
    /\ UNCHANGED <<transport, request_seq, received, copies, wire, handled, delivered, calm>>

NextTool == \/ SendRequest \/ SendFails \/ PostReturnsBody \/ PostReturnsNone
            \/ ServerResponds \/ ReaderTakes \/ AwaitResolved \/ AwaitTimesOut
            \/ TimeoutRemoves

SpecTool == InitTool /\ [][NextTool]_vars

\* the responses that resolved the slot of request i
Resolutions(i) == {k \in 1..Len(handled) : handled[k].id = i /\ handled[k].outcome = "resolved"}

SeqIncreasing(envs) == \A i, j \in 1..Len(envs) : i < j => envs[i].seq < envs[j].seq

\* C20: the seq of the envelopes sent in one direction of a gRPC stream grows
\* in send order: on the outbound stream of the gateway acting as client, and
\* on the response stream of every client of the fan-in server.
C20_SeqMonotonic ==
    /\ SeqIncreasing(outbound)
    /\ \A c \in Tags : SeqIncreasing(inbox[c])

C20_Witness ==
    /\ Len(outbound) >= 2 /\ outbound[2].seq = outbound[1].seq + 1
    /\ \E c \in Tags : /\ Len(inbox[c]) >= 2
                       /\ inbox[c][2].seq > inbox[c][1].seq + 1

\* ------------------------------------------ transport::pool, the fingerprint
\* Strings are sequences of characters. The byte of a character (its rank in
\* the order str::cmp uses) and its to_ascii_lowercase:
FpByte(c) == CASE c = "1" -> 49 [] c = "2" -> 50 [] c = ";" -> 59 [] c = "=" -> 61
               [] c = "A" -> 65 [] c = "a" -> 97 [] c = "b" -> 98 [] c = "e" -> 101
               [] c = "s" -> 115 [] c = "u" -> 117 [] c = "w" -> 119 [] c = "|" -> 124
FpLower(c) == IF c = "A" THEN "a" ELSE c

\* str::cmp: a < b, byte by byte, a proper prefix first
RECURSIVE StrLess(_, _)
StrLess(a, b) ==
    IF b = <<>> THEN FALSE
    ELSE IF a = <<>> THEN TRUE
    ELSE IF Head(a) = Head(b) THEN StrLess(Tail(a), Tail(b))
    ELSE FpByte(Head(a)) < FpByte(Head(b))

\* pairs.sort(): insertion into a sorted Vec
RECURSIVE SortInsert(_, _)
SortInsert(sorted, x) ==
    IF sorted = <<>> THEN <<x>>
    ELSE IF StrLess(x, Head(sorted)) THEN <<x>> \o sorted
    ELSE <<Head(sorted)>> \o SortInsert(Tail(sorted), x)

RECURSIVE SortStrings(_)
SortStrings(list) ==
    IF list = <<>> THEN <<>> ELSE SortInsert(SortStrings(Tail(list)), Head(list))

\* pairs.join(";")
RECURSIVE JoinSemicolon(_)
JoinSemicolon(list) ==
    IF list = <<>> THEN <<>>
    ELSE IF Len(list) = 1 THEN list[1]
    ELSE list[1] \o <<";">> \o JoinSemicolon(Tail(list))

\* format!("{}={}", k.to_ascii_lowercase(), v)
HeaderPair(h) == [i \in 1..Len(h.k) |-> FpLower(h.k[i])] \o <<"=">> \o h.v

\* faulty variant: the pairs are joined in the order the map iterates them
FingerprintPayloadUnsorted(tr, ep, hs, pv) ==
    tr \o <<"|">> \o ep \o <<"|">> \o pv \o <<"|">>
      \o JoinSemicolon([i \in 1..Len(hs) |-> HeaderPair(hs[i])])

\* the payload transport_fingerprint hashes; `headers` is the map in the order
\* its iterator yields the entries
FingerprintPayload(tr, ep, hs, pv) ==
    tr \o <<"|">> \o ep \o <<"|">> \o pv \o <<"|">>
      \o JoinSemicolon(SortStrings([i \in 1..Len(hs) |-> HeaderPair(hs[i])]))

\* sha256_hex: the digest stands for its preimage and for nothing else
sha256_hex(content) == <<"sha256">> \o content

transport_fingerprint(in) ==
    sha256_hex(FingerprintPayload(in.transport, in.endpoint, in.headers, in.version))

\* the inputs: the transport names are literals of the gateways, the endpoint
\* (or command), the protocol version and the headers come from the user
FpTransports == {<<"w", "s">>, <<"s", "s", "e">>}
FpEndpoints == {<<"u">>, <<"u", "|", "1">>}
FpVersions == {<<"1">>, <<"1", "|", "1">>}
HeaderNames == {<<"a">>, <<"A">>, <<"b">>}
HeaderValues == {<<"1">>, <<"1", ";", "b", "=", "1">>}
Headers == [k : HeaderNames, v : HeaderValues]

\* a HashMap of headers in an iteration order: no two entries with one key
RECURSIVE HeaderMaps(_)
HeaderMaps(n) ==
    IF n = 0 THEN {<<>>}
    ELSE LET shorter == HeaderMaps(n - 1)
         IN  shorter \cup {Append(m, h) : m \in {x \in shorter : Len(x) = n - 1},
                                          h \in Headers}
FpHeaderMaps == {m \in HeaderMaps(MaxHeaders) :
                    \A i, j \in 1..Len(m) : m[i].k = m[j].k => i = j}
FpInputs == [transport : FpTransports, endpoint : FpEndpoints, headers : FpHeaderMaps,
             version : FpVersions]

\* the entries of a header map, whatever the order
PairsOf(m) == {m[i] : i \in 1..Len(m)}

coreVars == <<idVars, gwVars, rwVars, grpcVars, timeVars, toolVars, clientVars>>
allOld == <<coreVars, lateVars>>
CoreIdle == /\ rw = RwIdle /\ breaker = BreakerNew
            /\ policy = [max_retries |-> 0, failure_threshold |-> 0]
            /\ GwIdle /\ IdIdle /\ GrpcIdle /\ TimeIdle /\ ToolIdle /\ ClientIdle
OldIdle == CoreIdle /\ LateIdle

InitFp == /\ fpPc = "input" /\ fpIn \in FpInputs \X FpInputs /\ fpOut = <<>>
          /\ OldIdle /\ PoolIdle /\ RtIdle /\ AuthIdle

FpCompute ==
    /\ fpPc = "input"
    /\ fpOut' = <<transport_fingerprint(fpIn[1]), transport_fingerprint(fpIn[2])>>
    /\ fpPc' = "done"
    /\ UNCHANGED <<fpIn, allOld, poolVars, rtVars, authVars>>

NextFp == FpCompute
SpecFp == InitFp /\ [][NextFp]_vars

SameButOrder(a, b) == /\ a.transport = b.transport /\ a.endpoint = b.endpoint
                      /\ a.version = b.version
                      /\ PairsOf(a.headers) = PairsOf(b.headers)

\* C24: two header maps with the same pairs give the same fingerprint, for
\* equal transport, endpoint and protocol version.
C24_OrderStable ==
    (fpPc = "done" /\ SameButOrder(fpIn[1], fpIn[2])) => fpOut[1] = fpOut[2]

C24_Witness ==
    /\ fpPc = "done" /\ SameButOrder(fpIn[1], fpIn[2])
    /\ Len(fpIn[1].headers) = 2 /\ fpIn[1].headers # fpIn[2].headers
    /\ fpOut[1] = fpOut[2]

\* C25 (as stated): inputs that differ in the transport, the endpoint, the
\* protocol version or a header pair are never hashed from the same payload.
C25_Sensitive ==
    (fpPc = "done" /\ ~SameButOrder(fpIn[1], fpIn[2])) => fpOut[1] # fpOut[2]

\* ------------------------------------------------- transport::pool, the pool
\* the gateways of the process: what each passes to transport_fingerprint; the
\* header is a credential
PoolConfigs == <<[transport |-> <<"w", "s">>, endpoint |-> <<"u">>,
                  headers |-> <<[k |-> <<"A">>, v |-> <<"1">>]>>, version |-> <<"1">>],
                 [transport |-> <<"s", "s", "e">>, endpoint |-> <<"u">>,
                  headers |-> <<[k |-> <<"A">>, v |-> <<"1">>]>>, version |-> <<"1">>]>>

\* faulty variant: the gateway uses the payload itself as the key
PoolKeyRaw(i) == FingerprintPayload(PoolConfigs[i].transport, PoolConfigs[i].endpoint,
                                    PoolConfigs[i].headers, PoolConfigs[i].version)

\* `transport_fingerprint(..)` as the gateways call it for their pool keys
PoolKey(i) == transport_fingerprint(PoolConfigs[i])

PoolTasks == {1, 2}
NoTask == [pc |-> "idle", key |-> 0, client |-> 0]
NoPersist == [pc |-> "idle", body |-> <<>>]

\* serde_json::to_string_pretty(store): the records in key order, in braces
WarmBody(records) ==
    <<[kind |-> "open", key |-> <<>>, transport |-> ""]>>
    \o [j \in 1..Len(SelectSeq(<<1, 2>>, LAMBDA i : records[i] # "")) |->
           LET i == SelectSeq(<<1, 2>>, LAMBDA n : records[n] # "")[j]
           IN  [kind |-> "record", key |-> PoolKey(i), transport |-> records[i]]]
    \o <<[kind |-> "close", key |-> <<>>, transport |-> ""]>>

\* serde_json::from_str::<WarmHintStore>(&body) succeeds
ParsesAsStore(bytes) == /\ Len(bytes) >= 2
                        /\ bytes[1].kind = "open"
                        /\ bytes[Len(bytes)].kind = "close"

InitPool == /\ http_clients = [i \in 1..2 |-> 0]
            /\ ptask = [t \in PoolTasks |-> NoTask]
            /\ made = {} /\ returned = {}
            /\ warm_hints = [i \in 1..2 |-> ""]
            /\ file = [exists |-> FALSE, bytes |-> <<>>]
            /\ persist = NoPersist /\ loaded = "none"
            /\ FpIdle /\ RtIdle /\ AuthIdle /\ OldIdle

\* http_client, first block: lock, `clients.get(key)`, unlock
HcLookup(t) ==
    /\ ptask[t].pc = "idle"
    /\ Cardinality(made) + Cardinality({u \in PoolTasks : ptask[u].pc = "missed"})
          < MaxPoolCalls
    /\ \E i \in 1..2 :
          IF http_clients[i] # 0
          THEN /\ returned' = returned \cup {[key |-> i, client |-> http_clients[i]]}
               /\ ptask' = ptask
          ELSE /\ returned' = returned
               /\ ptask' = [ptask EXCEPT ![t] = [pc |-> "missed", key |-> i, client |-> 0]]
    /\ UNCHANGED <<http_clients, made, warm_hints, file, persist, loaded, fpVars, rtVars, authVars, allOld>>

\* http_client: the warm hint is looked up for a debug line, then
\* builder.build(): a new client, or Err
HcBuild(t) ==
    /\ ptask[t].pc = "missed"
    /\ \/ /\ made' = made \cup {[client |-> Cardinality(made) + 1, key |-> ptask[t].key]}
          /\ ptask' = [ptask EXCEPT ![t].pc = "built", ![t].client = Cardinality(made) + 1]
       \/ /\ made' = made
          /\ ptask' = [ptask EXCEPT ![t] = NoTask]
    /\ UNCHANGED <<http_clients, returned, warm_hints, file, persist, loaded, fpVars, rtVars, authVars, allOld>>

\* http_client, last block: lock, `clients.insert(key, client.clone())`, Ok(client)
HcInsert(t) ==
    /\ ptask[t].pc = "built"
    /\ http_clients' = [http_clients EXCEPT ![ptask[t].key] = ptask[t].client]
    /\ returned' = returned \cup {[key |-> ptask[t].key, client |-> ptask[t].client]}
    /\ ptask' = [ptask EXCEPT ![t] = NoTask]
    /\ UNCHANGED <<made, warm_hints, file, persist, loaded, fpVars, rtVars, authVars, allOld>>

\* mark_success(key, transport): under the lock of warm_hints the record is
\* inserted and persist_warm_hint_store starts: std::fs::write creates the file
\* or truncates it; create_dir_all or the open may fail, which is only logged
MarkSuccess ==
    /\ persist.pc = "idle"
    /\ Cardinality({i \in 1..2 : warm_hints[i] # ""}) < MaxMarks
    /\ \E i \in 1..2 :
          /\ warm_hints[i] = ""
          /\ warm_hints' = [warm_hints EXCEPT ![i] = IF i = 1 THEN "ws" ELSE "sse"]
    /\ \/ /\ file' = [exists |-> TRUE, bytes |-> <<>>]
          /\ persist' = [pc |-> "writing", body |-> WarmBody(warm_hints')]
       \/ UNCHANGED <<file, persist>>
    /\ UNCHANGED <<http_clients, ptask, made, returned, loaded, fpVars, rtVars, authVars, allOld>>

\* std::fs::write, write_all: some more bytes of the body reach the file; the
\* call ends when all are written, or with an error that is only logged
PersistWrite ==
    /\ persist.pc = "writing"
    /\ \/ \E n \in (Len(file.bytes) + 1)..Len(persist.body) :
             /\ file' = [file EXCEPT !.bytes = SubSeq(persist.body, 1, n)]
             /\ persist' = IF n = Len(persist.body) THEN NoPersist ELSE persist
       \/ /\ persist' = NoPersist
          /\ file' = file
    /\ UNCHANGED <<http_clients, ptask, made, returned, warm_hints, loaded, fpVars, rtVars, authVars, allOld>>

\* load_warm_hint_store in a process that starts meanwhile (TransportPool::new)
LoadWarmHints ==
    /\ loaded' = IF ~file.exists \/ ParsesAsStore(file.bytes) THEN "ok" ELSE "invalid"
    /\ UNCHANGED <<http_clients, ptask, made, returned, warm_hints, file, persist, fpVars,
                   rtVars, authVars, allOld>>

NextPool == \/ \E t \in PoolTasks : HcLookup(t) \/ HcBuild(t) \/ HcInsert(t)
            \/ MarkSuccess \/ PersistWrite \/ LoadWarmHints

SpecPool == InitPool /\ [][NextPool]_vars

\* C21 (as stated): at most one client is ever built for a key, and all the
\* callers of http_client with that key are given the same client.
C21_OneClientPerKey ==
    /\ \A m1, m2 \in made : m1.key = m2.key => m1.client = m2.client
    /\ \A r1, r2 \in returned : r1.key = r2.key => r1.client = r2.client

\* C22 (as stated): no reader ever finds the warm cache file partially written:
\* whenever the file exists, its content parses as a store.
C22_NeverPartial ==
    /\ loaded # "invalid"
    /\ file.exists => ParsesAsStore(file.bytes)

\* C23: every record key in the warm cache file is a digest; no key is an
\* endpoint, a header value or the payload they were joined into, and the
\* transport of a record is a gateway's literal.
C23_OnlyHashedKeys ==
    \A n \in 1..Len(file.bytes) :
        file.bytes[n].kind = "record" =>
            /\ Head(file.bytes[n].key) = "sha256"
            /\ \A i \in 1..2 : file.bytes[n].key # PoolKeyRaw(i)
            /\ file.bytes[n].transport \in {"ws", "sse"}

C23_Witness ==
    /\ persist.pc = "idle" /\ Len(file.bytes) = 4
    /\ file.bytes[2].kind = "record" /\ file.bytes[2].key = sha256_hex(PoolKeyRaw(1))
    /\ file.bytes[3].kind = "record" /\ file.bytes[3].key = sha256_hex(PoolKeyRaw(2))

\* ------------------------------------------------ the runtime update tasks
RtAdapters == {"stdio", "stdio-grpc", "sse", "http", "ws", "grpc"}
HasChild(a) == a \in {"stdio", "stdio-grpc"}

\* an update: a new value for the headers and for the env/CLI arguments, or
\* nothing (-1) for either
RtUpdates == [headers : {0 - 1, 0, 1}, env : {0 - 1, 0, 1}]
RtScopes == {"global", "session"}

\* RuntimeArgsStore::update_global: the arguments after the update
UpdatedArgs(args, u) ==
    [headers |-> IF u.headers >= 0 THEN u.headers ELSE args.headers,
     env |-> IF u.env >= 0 THEN u.env ELSE args.env]

\* RuntimeArgsStore::update_global: what it announces
UpdateResult(args, u) ==
    [restart_needed |-> UpdatedArgs(args, u).env # args.env,
     headers_changed |-> UpdatedArgs(args, u).headers # args.headers]

\* RuntimeApplyResult::ok(message, restart_needed), RuntimeApplyResult::error(message)
ApplyOk(restart) == [ok |-> TRUE, restart_needed |-> restart]
ApplyError == [ok |-> FALSE, restart_needed |-> FALSE]

\* faulty variant: only env/CLI changes ask for a reconnect
ReconnectForEnvOnly(r) == r.restart_needed

\* ws_to_stdio, grpc_to_stdio: `update_result.restart_needed || update_result.headers_changed`
ReconnectRequired(r) == r.restart_needed \/ r.headers_changed

\* faulty variant: every scope is applied to the global arguments
AnyScope(scope) == TRUE

\* `match req.update.scope { RuntimeScope::Global => .., RuntimeScope::Session(_) => .. }`
IsGlobalScope(scope) == scope = "global"

InitRuntime == /\ rtAdapter \in RtAdapters
               /\ rtArgs = [headers |-> 0, env |-> 0]
               /\ rtChild = [restarts |-> 0, alive |-> HasChild(rtAdapter)]
               /\ rtLast = [scope |-> "none", update |-> [headers |-> 0 - 1, env |-> 0 - 1],
                            result |-> ApplyError]
               /\ rtCount = 0
               /\ FpIdle /\ PoolIdle /\ AuthIdle /\ OldIdle

\* one turn of `while let Some(req) = updates.recv().await`: the result is sent
\* on req.respond_to
HandleUpdate ==
    /\ rtCount < MaxUpdates
    /\ rtCount' = rtCount + 1
    /\ \E scope \in RtScopes, u \in RtUpdates :
          IF IsGlobalScope(scope)
          THEN LET r == UpdateResult(rtArgs, u)
               IN  /\ rtArgs' = UpdatedArgs(rtArgs, u)
                   /\ IF HasChild(rtAdapter) /\ r.restart_needed
                      THEN \E restarted \in BOOLEAN :
                              /\ rtChild' = [restarts |-> rtChild.restarts + 1,
                                             alive |-> restarted]
                              /\ rtLast' = [scope |-> scope, update |-> u,
                                            result |-> IF restarted THEN ApplyOk(TRUE)
                                                       ELSE ApplyError]
                      ELSE /\ rtChild' = rtChild
                           /\ rtLast' = [scope |-> scope, update |-> u,
                                         result |-> ApplyOk(/\ rtAdapter \in {"ws", "grpc"}
                                                            /\ ReconnectRequired(r))]
          ELSE /\ rtLast' = [scope |-> scope, update |-> u, result |-> ApplyError]
               /\ UNCHANGED <<rtArgs, rtChild>>
    /\ UNCHANGED <<rtAdapter, fpVars, poolVars, authVars, allOld>>

NextRuntime == HandleUpdate
SpecRuntime == InitRuntime /\ [][NextRuntime]_vars

\* C26: a global update that carries headers only reports restart_needed
\* exactly when the gateway is ws->stdio or grpc->stdio and the headers changed.
C26_HeaderOnlyRestart ==
    [][(rtCount' = rtCount + 1 /\ rtLast'.scope = "global"
          /\ rtLast'.update.headers >= 0 /\ rtLast'.update.env < 0) =>
         (rtLast'.result.restart_needed <=>
             (rtAdapter \in {"ws", "grpc"} /\ rtArgs'.headers # rtArgs.headers))]_vars

C26_Witness ==
    /\ rtAdapter = "ws" /\ rtLast.scope = "global"
    /\ rtLast.update = [headers |-> 1, env |-> 0 - 1]
    /\ rtArgs.headers = 1 /\ rtCount = 1
    /\ rtLast.result = ApplyOk(TRUE)

\* C27: a Session-scoped update is answered with ok = false on every gateway
\* and leaves the runtime arguments and the child as they were.
C27_SessionScopeRejected ==
    [][(rtCount' = rtCount + 1 /\ rtLast'.scope = "session") =>
          /\ ~rtLast'.result.ok
          /\ rtArgs' = rtArgs
          /\ rtChild' = rtChild]_vars

C27_Witness ==
    /\ rtAdapter = "stdio" /\ rtCount = 2 /\ rtLast.scope = "session"
    /\ rtLast.update = [headers |-> 0 - 1, env |-> 0]
    /\ rtArgs.env = 1 /\ rtChild = [restarts |-> 1, alive |-> TRUE]
    /\ ~rtLast.result.ok

\* ------------------------------------- stdio_to_grpc: authorization of calls
NoMetadata == [scheme |-> "absent", token |-> 0]

\* what a caller may put under `authorization`: nothing, the configured token,
\* another token, the token with another scheme, the token without a scheme
MetadataValues == {NoMetadata} \cup [scheme : {"Bearer", "bearer", ""}, token : {1, 2}]

\* faulty variant: the scheme is not compared
authorize_any_scheme(md, token) ==
    token = 0 \/ (md # NoMetadata /\ md.token = token)

\* authorize: Ok(()) when no token is configured or the metadata has
\* `authorization` equal to format!("Bearer {token}")
authorize(md, token) ==
    IF token = 0 THEN TRUE
    ELSE IF md = NoMetadata THEN FALSE
    ELSE md = [scheme |-> "Bearer", token |-> token]

InitAuth == /\ bearer_token \in {0, 1}
            /\ metadata \in [Tags -> MetadataValues]
            /\ health = {}
            /\ clients = {} /\ rxAlive = {}
            /\ readerPc = [c \in Tags |-> "none"]
            /\ sent = [c \in Tags |-> 0]
            /\ childIn = {} /\ childOut = <<>>
            /\ inbox = [c \in Tags |-> <<>>]
            /\ seq = 0 /\ childOwn = 0
            /\ rw = RwIdle /\ breaker = BreakerNew
            /\ policy = [max_retries |-> 0, failure_threshold |-> 0]
            /\ GwIdle /\ IdIdle /\ TimeIdle /\ ToolIdle /\ ClientIdle
            /\ FpIdle /\ PoolIdle /\ RtIdle /\ LateIdle

\* stream(): `authorize(..)?`, then the client is registered and its reader
\* task spawned; a call that is not authorized returns Err(Status) at once
AuthStream(c) ==
    IF authorize(metadata[c], bearer_token)
    THEN GrpcConnect(c)
    ELSE /\ readerPc[c] = "none"
         /\ readerPc' = [readerPc EXCEPT ![c] = "rejected"]
         /\ UNCHANGED <<clients, rxAlive, sent, childIn, childOut, inbox, seq, childOwn,
                        rest>>

\* health(): `authorize(..)?`, then the child's state is reported
AuthHealth(c) ==
    /\ health' = health \cup {[caller |-> c,
                               reply |-> IF authorize(metadata[c], bearer_token)
                                         THEN "ok" ELSE "unauthenticated"]}
    /\ UNCHANGED <<bearer_token, metadata, grpcVars, fpVars, poolVars, rtVars, allOld>>

NextAuth == \E c \in Tags : \/ AuthStream(c) \/ AuthHealth(c)
                            \/ ReaderSkips(c) \/ ReaderForwards(c) \/ ReaderStops(c)
                            \/ ReaderRemoves(c)

SpecAuth == InitAuth /\ [][NextAuth]_vars

\* the caller presented `authorization: Bearer <the configured token>`
PresentsToken(c) == metadata[c] = [scheme |-> "Bearer", token |-> bearer_token]

\* C28: with a token configured, a caller that does not present it gets no
\* stream and no health answer, and nothing it sends reaches the child.
C28_UnauthorizedRejected ==
    \A c \in Tags :
        (bearer_token # 0 /\ ~PresentsToken(c)) =>
            /\ readerPc[c] \in {"none", "rejected"}
            /\ c \notin clients
            /\ sent[c] = 0
            /\ \A m \in childIn : m.from # c
            /\ \A h \in health : h.caller = c => h.reply = "unauthenticated"

C28_Witness ==
    /\ bearer_token = 1
    /\ metadata[TagA] = [scheme |-> "bearer", token |-> 1]
    /\ readerPc[TagA] = "rejected"
    /\ [caller |-> TagA, reply |-> "unauthenticated"] \in health
    /\ PresentsToken(TagB) /\ \E m \in childIn : m.from = TagB

\* ---------------------------------------------------------------------------
\* tool_api: ToolHandle::call, arguments normalised before tools/call is sent
\* ---------------------------------------------------------------------------

\* The tool's inputSchema is taken verbatim from the server's tools/list
\* answer.  Here it has two properties: "a", a scalar, and "p", which may be
\* a nested object with one property "x".
\*   type     the schema's `type`: the string "object", absent, or something
\*            else (a union such as ["object", "null"])
\*   required the keys listed under `required`
\*   defA     property "a" has a `default`
\*   ptype    the `type` of property "p"
\*   defP     property "p" has a `default` (the empty object)
\*   preq     the schema of "p" lists "x" under `required`
\*   defX     property "x" of "p" has a `default`
CallSchemas ==
    [type : {"object", "absent", "union"}, required : SUBSET {"a", "p"},
     defA : BOOLEAN, ptype : {"object", "string"}, defP : BOOLEAN,
     preq : BOOLEAN, defX : BOOLEAN]

\* The arguments: a JSON value that is an object or not; for an object, which
\* of the keys it has ("x" only inside an object-valued "p").
CallArgValues ==
    {v \in [kind : {"object", "other"}, a : {"absent", "v"},
            p : {"absent", "scalar", "obj"}, x : {"absent", "v"}] :
        /\ (v.p # "obj" => v.x = "absent")
        /\ (v.kind = "other" => v.a = "absent" /\ v.p = "absent")}

NoArgs == [kind |-> "object", a |-> "absent", p |-> "absent", x |-> "absent"]

\* is_object_schema of the tool's schema: `type` is the string "object", or
\* there is no `type` and the schema has `properties`
is_object_schema(schema) ==
    CASE schema.type = "object" -> TRUE
      [] schema.type = "absent" -> TRUE
      [] OTHER -> FALSE

\* apply_defaults_object: an absent key takes its property's default; an
\* object value under an object-typed property is filled in recursively
apply_defaults_object(schema, args) ==
    LET a1 == IF args.a = "absent" /\ schema.defA THEN "v" ELSE args.a
        p1 == IF args.p = "absent" /\ schema.defP THEN "obj" ELSE args.p
        x1 == IF p1 = "obj" /\ schema.ptype = "object"
                 /\ args.x = "absent" /\ schema.defX
              THEN "v" ELSE args.x
    IN  [kind |-> args.kind, a |-> a1, p |-> p1, x |-> x1]

apply_defaults(schema, args) ==
    IF ~is_object_schema(schema) \/ args.kind # "object"
    THEN args
    ELSE apply_defaults_object(schema, args)

\* validate_required_object: the first missing key of `required`, then the
\* object-typed properties whose value is an object
validate_required_object(schema, args) ==
    CASE "a" \in schema.required /\ args.a = "absent" ->
             [ok |-> FALSE, error |-> "MissingRequired", path |-> "$", key |-> "a"]
      [] "p" \in schema.required /\ args.p = "absent" ->
             [ok |-> FALSE, error |-> "MissingRequired", path |-> "$", key |-> "p"]
      [] schema.ptype = "object" /\ args.p = "obj" /\ schema.preq /\ args.x = "absent" ->
             [ok |-> FALSE, error |-> "MissingRequired", path |-> "$.p", key |-> "x"]
      [] OTHER -> [ok |-> TRUE, error |-> "", path |-> "", key |-> ""]

validate_required(schema, args) ==
    IF ~is_object_schema(schema)
    THEN [ok |-> TRUE, error |-> "", path |-> "", key |-> ""]
    ELSE IF args.kind # "object"
         THEN [ok |-> FALSE, error |-> "InvalidArguments", path |-> "", key |-> ""]
         ELSE validate_required_object(schema, args)

\* normalize_args_for_tool without its two checks
normalize_args_unchecked(schema, args) ==
    [ok |-> TRUE, error |-> "", path |-> "", key |-> "",
     args |-> apply_defaults(schema, args)]

\* normalize_args_for_tool
normalize_args_for_tool(schema, args) ==
    IF args.kind # "object"
    THEN [ok |-> FALSE, error |-> "InvalidArguments", path |-> "", key |-> "",
          args |-> args]
    ELSE LET filled == apply_defaults(schema, args)
             v == validate_required(schema, filled)
         IN  [ok |-> v.ok, error |-> v.error, path |-> v.path, key |-> v.key,
              args |-> filled]

InitCall == /\ callPc = "start"
            /\ callIn \in [schema : CallSchemas, args : CallArgValues]
            /\ callArgs = NoArgs
            /\ callInit \in BOOLEAN
            /\ callSent = <<>>
            /\ callResult = ""
            /\ CoreIdle /\ FpIdle /\ PoolIdle /\ RtIdle /\ AuthIdle /\ BoIdle /\ MoreIdle

callRest == <<coreVars, fpVars, poolVars, rtVars, authVars, boVars, moreVars>>

\* call_tool, `normalize_args_for_tool(metadata, args)?`
CallNormalize ==
    /\ callPc = "start"
    /\ LET r == normalize_args_for_tool(callIn.schema, callIn.args)
       IN  IF r.ok
           THEN /\ callArgs' = r.args
                /\ callPc' = "init"
                /\ UNCHANGED callResult
           ELSE /\ callResult' = r.error
                /\ callPc' = "done"
                /\ UNCHANGED callArgs
    /\ UNCHANGED <<callIn, callInit, callSent, callRest>>

\* call_tool, `state.ensure_initialized().await?` succeeding
CallEnsureInitialized ==
    /\ callPc = "init"
    /\ IF callInit
       THEN UNCHANGED <<callInit, callSent>>
       ELSE /\ callSent' = callSent \o
                    <<[method |-> "initialize", arguments |-> NoArgs],
                      [method |-> "notifications/initialized", arguments |-> NoArgs]>>
            /\ callInit' = TRUE
    /\ callPc' = "send"
    /\ UNCHANGED <<callIn, callArgs, callResult, callRest>>

\* call_tool, `state.ensure_initialized().await?` failing on its request
CallInitializeFails ==
    /\ callPc = "init"
    /\ ~callInit
    /\ callSent' = Append(callSent, [method |-> "initialize", arguments |-> NoArgs])
    /\ callResult' \in {"Transport", "Protocol"}
    /\ callPc' = "done"
    /\ UNCHANGED <<callIn, callArgs, callInit, callRest>>

\* call_tool, `send_jsonrpc_request("tools/call", ..)`
CallSend ==
    /\ callPc = "send"
    /\ callSent' = Append(callSent, [method |-> "tools/call", arguments |-> callArgs])
    /\ callResult' \in {"response", "Transport", "Protocol"}
    /\ callPc' = "done"
    /\ UNCHANGED <<callIn, callArgs, callInit, callRest>>

NextCall == CallNormalize \/ CallEnsureInitialized \/ CallInitializeFails \/ CallSend

SpecCall == InitCall /\ [][NextCall]_vars

\* a key listed under `required` that the arguments do not have and for
\* which the schema gives no default, at the top level or inside "p"
StillMissing(schema, args) ==
    \/ "a" \in schema.required /\ args.a = "absent" /\ ~schema.defA
    \/ "p" \in schema.required /\ args.p = "absent" /\ ~schema.defP
    \/ /\ schema.ptype = "object" /\ schema.preq /\ ~schema.defX
       /\ args.x = "absent"
       /\ (args.p = "obj" \/ (args.p = "absent" /\ schema.defP))

ToolsCallSent == \E i \in 1..Len(callSent) : callSent[i].method = "tools/call"

CallRefused ==
    /\ ~ToolsCallSent
    /\ callPc \in {"start", "done"}
    /\ callPc = "done" => callResult \in {"InvalidArguments", "MissingRequired"}

\* C29: when the arguments are not an object, or a required key is still
\* missing after the defaults were injected, the call fails and no tools/call
\* request is sent.
C29_ValidatedBeforeSend ==
    (callIn.args.kind # "object" \/ StillMissing(callIn.schema, callIn.args))
        => CallRefused

\* the same for the schemas is_object_schema accepts
ValidatedWhenObjectSchema ==
    (/\ is_object_schema(callIn.schema)
     /\ (callIn.args.kind # "object" \/ StillMissing(callIn.schema, callIn.args)))
        => CallRefused

ValidatedWhenObjectSchemaWitness ==
    /\ callPc = "done" /\ callResult = "MissingRequired" /\ callSent = <<>>
    /\ callIn.schema.preq /\ callIn.args.p = "absent" /\ callIn.schema.defP

\* ---------------------------------------------------------------------------
\* RetryPolicy::backoff_delay
\* ---------------------------------------------------------------------------

\* Durations are counted in milliseconds.  The configuration gives the two
\* delays as u64 milliseconds (Duration::from_millis); a Duration holds u64
\* seconds, a thousand times more.  Both widths are scaled down together.
MillisMax == 1023
DurationMax == 1000 * MillisMax + 999
MaxRetryIndex == 18
MaxPosts == 3
MaxSessions == 2
MaxGets == 2
MaxOps == 3

MinOf(a, b) == IF a <= b THEN a ELSE b

\* Duration::checked_mul: None when the product does not fit a Duration
checked_mul(d, n) ==
    IF d * n > DurationMax THEN [some |-> FALSE, value |-> 0]
                           ELSE [some |-> TRUE, value |-> d * n]

\* backoff_delay without the final `.min(self.max_delay)`
backoff_delay_uncapped(p, retry_index) ==
    IF p.base_delay = 0
    THEN 0
    ELSE LET shift == MinOf(retry_index, 16)
             multiplier == 2 ^ shift
             product == checked_mul(p.base_delay, multiplier)
         IN  IF product.some THEN product.value ELSE p.max_delay

\* backoff_delay
backoff_delay(p, retry_index) ==
    IF p.base_delay = 0
    THEN 0
    ELSE LET shift == MinOf(retry_index, 16)
             multiplier == 2 ^ shift
             product == checked_mul(p.base_delay, multiplier)
         IN  MinOf(IF product.some THEN product.value ELSE p.max_delay, p.max_delay)

BoMillis == {0, 1, 3, 100, 350, MillisMax}

InitBackoff == /\ boPolicy \in [base_delay : BoMillis, max_delay : BoMillis]
               /\ boIndex = 0
               /\ boDelays = <<>>
               /\ CoreIdle /\ FpIdle /\ PoolIdle /\ RtIdle /\ AuthIdle /\ CallIdle
               /\ MoreIdle

\* the retry loop asks for the delay of retry index 0, 1, 2, ...
BackoffDelay ==
    /\ boIndex <= MaxRetryIndex
    /\ boDelays' = Append(boDelays, backoff_delay(boPolicy, boIndex))
    /\ boIndex' = boIndex + 1
    /\ UNCHANGED <<boPolicy, coreVars, fpVars, poolVars, rtVars, authVars, callVars,
                   moreVars>>

NextBackoff == BackoffDelay

SpecBackoff == InitBackoff /\ [][NextBackoff]_vars

\* C30: the delay of retry index k is min(base_delay * 2^min(k,16), max_delay);
\* it never exceeds max_delay and never decreases as k grows.
C30_BackoffFormula ==
    \A i \in 1..Len(boDelays) :
        LET k == i - 1
        IN  /\ boDelays[i] = MinOf(boPolicy.base_delay * (2 ^ MinOf(k, 16)),
                                   boPolicy.max_delay)
            /\ boDelays[i] <= boPolicy.max_delay
            /\ (i > 1 => boDelays[i] >= boDelays[i - 1])

\* the product overflows the Duration and the index is past the saturation
C30_Witness ==
    /\ boPolicy = [base_delay |-> MillisMax, max_delay |-> MillisMax]
    /\ Len(boDelays) > 17
    /\ ~checked_mul(boPolicy.base_delay, 2 ^ 16).some
    /\ boDelays[18] = MillisMax

\* ---------------------------------------------------------------------------
\* wrap_response: the members of the envelope printed for a request
\* ---------------------------------------------------------------------------

pastVars == <<coreVars, fpVars, poolVars, rtVars, authVars, callVars, boVars>>
PastIdle == /\ CoreIdle /\ FpIdle /\ PoolIdle /\ RtIdle /\ AuthIdle /\ CallIdle
            /\ BoIdle

\* a member of a JSON object that is not there
Absent == "absent"

\* The inbound request as is_request accepted it: `method` and `id` are
\* there, `jsonrpc` need not be.
EnvRequests == [jsonrpc : {Absent, "2.0", "1.0"}, id : {"null", "1", "2", "a", "b"}]

\* The payload: a result, an error with an integer code (whose message may
\* start with "MCP error <code>:"), an error without one, or neither member.
EnvPayloads == [kind : {"result", "error", "none"}, code : {Absent, "-32000"},
                message : {"m", "MCP error -32000: m"}]

normalize_error_message(code, text) ==
    IF text = "MCP error " \o code \o ": m" THEN "m" ELSE text

\* `req.get("jsonrpc").cloned().unwrap_or_else(|| "2.0")`
wrap_response_jsonrpc(req) == IF req.jsonrpc = Absent THEN "2.0" ELSE req.jsonrpc

\* wrap_response: jsonrpc and id of the request, error or result of the payload
wrap_response_object(req, pl) ==
    [jsonrpc |-> wrap_response_jsonrpc(req),
     id |-> req.id,
     error |-> IF pl.kind # "error" THEN Absent
               ELSE IF pl.code # Absent
                    THEN <<pl.code, normalize_error_message(pl.code, pl.message)>>
                    ELSE <<pl.code, pl.message>>,
     result |-> IF pl.kind = "result" THEN "r" ELSE Absent]

InitWrap == /\ envPc = "input"
            /\ envReq \in EnvRequests
            /\ envPayload \in EnvPayloads
            /\ envOut = <<>>
            /\ PastIdle /\ SessIdle /\ HsIdle

\* run: `let response = wrap_response(&message, payload); println!(..)`
WrapAndPrint ==
    /\ envPc = "input"
    /\ envOut' = Append(envOut, wrap_response_object(envReq, envPayload))
    /\ envPc' = "printed"
    /\ UNCHANGED <<envReq, envPayload, pastVars, sessVars, hsVars>>

NextWrap == WrapAndPrint

SpecWrap == InitWrap /\ [][NextWrap]_vars

\* C31: the envelope printed for a request without a jsonrpc member has no
\* jsonrpc member either, and a jsonrpc member that is there is not rewritten.
C31_JsonrpcPreserved ==
    \A i \in 1..Len(envOut) : envOut[i].jsonrpc = envReq.jsonrpc

\* a jsonrpc member that is there is copied as it is
JsonrpcCopiedWhenPresent ==
    \A i \in 1..Len(envOut) :
        envReq.jsonrpc # Absent => envOut[i].jsonrpc = envReq.jsonrpc

\* ---------------------------------------------------------------------------
\* sse_to_stdio: the event stream after an error
\* ---------------------------------------------------------------------------

\* C32: after an error on the open event stream the sse adapter is
\* disconnected and connects again; its stream task does not end.
C32_StreamReconnects ==
    [][(gw = "sse" /\ streamPc = "open") => streamPc' \in {"open", "connecting"}]_vars

\* once the stream task of the sse adapter has ended it is never opened again
EndedStaysEnded ==
    [][(gw = "sse" /\ streamPc = "ended") => streamPc' = "ended"]_vars

\* ---------------------------------------------------------------------------
\* streamable_http_to_stdio: the Mcp-Session-Id header of POSTs and of the GET
\* ---------------------------------------------------------------------------

\* the session ids the server may put in the Mcp-Session-Id header of a
\* response; 0 stands for a response without the header
SessionHeaders == 0..MaxSessions

\* extract_session_id and `*session_id.write().await = Some(sid)`
Captured(old, header) == IF header # 0 THEN header ELSE old

\* number of GETs of the event stream sent so far
GetsSent == Cardinality({i \in 1..Len(sends) : sends[i].kind = "get"})

InitSession == /\ session_id = 0 /\ sid = 0
               /\ getPc = "poll" /\ postPc = "idle"
               /\ postSid = 0 /\ sends = <<>> /\ nposts = 0
               /\ PastIdle /\ EnvIdle /\ HsIdle

sessRest == <<pastVars, envVars, hsVars>>

\* stream task: `let Some(sid) = session_for_sse.read().await.clone() else
\* { sleep; continue }`
SsePoll ==
    /\ getPc = "poll"
    /\ GetsSent < MaxGets
    /\ session_id # 0
    /\ sid' = session_id
    /\ getPc' = "build"
    /\ UNCHANGED <<session_id, postPc, postSid, sends, nposts, sessRest>>

\* stream task: the GET is built with the header `Mcp-Session-Id: sid` (after
\* `runtime_clone.get_effective(None).await`) and sent; a failed GET goes
\* back to the top of the loop
SseGet ==
    /\ getPc = "build"
    /\ sends' = Append(sends, [kind |-> "get", carried |-> sid, known |-> session_id])
    /\ getPc' \in {"open", "poll"}
    /\ UNCHANGED <<session_id, sid, postPc, postSid, nposts, sessRest>>

\* stream task: the event stream ended or gave an error
SseEnds ==
    /\ getPc = "open"
    /\ getPc' = "poll"
    /\ UNCHANGED <<session_id, sid, postPc, postSid, sends, nposts, sessRest>>

\* send_request / send_initialized_notification: the POST takes the header
\* from `session_id.read().await.clone()`
PostBuild ==
    /\ postPc = "idle"
    /\ nposts < MaxPosts
    /\ postSid' = session_id
    /\ postPc' = "built"
    /\ nposts' = nposts + 1
    /\ UNCHANGED <<session_id, sid, getPc, sends, sessRest>>

\* `req.send().await`: it fails, or the response is there and the id of its
\* Mcp-Session-Id header, if any, is stored
PostSend ==
    /\ postPc = "built"
    /\ sends' = Append(sends, [kind |-> "post", carried |-> postSid, known |-> session_id])
    /\ \/ UNCHANGED session_id
       \/ \E h \in SessionHeaders : session_id' = Captured(session_id, h)
    /\ postPc' = "idle"
    /\ UNCHANGED <<sid, getPc, postSid, nposts, sessRest>>

NextSession == SsePoll \/ SseGet \/ SseEnds \/ PostBuild \/ PostSend

SpecSession == InitSession /\ [][NextSession]_vars

\* every POST carries the session id captured last
PostsCarryLatest ==
    \A i \in 1..Len(sends) : sends[i].kind = "post" => sends[i].carried = sends[i].known

\* the GET is never sent before a session id is known
GetAfterSession ==
    \A i \in 1..Len(sends) : sends[i].kind = "get" => sends[i].carried # 0

\* C33: once a session id has been captured, every later POST and every GET
\* of the event stream carries the id captured last, and no GET is sent
\* before an id is known.
C33_SessionIdCarried ==
    \A i \in 1..Len(sends) :
        /\ sends[i].known # 0 => sends[i].carried = sends[i].known
        /\ sends[i].kind = "get" => sends[i].carried # 0

\* ---------------------------------------------------------------------------
\* tool_api transports: the pending slot of the request in flight
\* ---------------------------------------------------------------------------

\* send_request has sent its request and has not returned
InFlight == tcall.pc \in {"posting", "waiting"}

\* no response has resolved the slot of the request in flight
Unresolved == Resolutions(tcall.id) = {}

\* C34: the slot is in the map before the request goes out: while a request
\* is in flight and unanswered its slot exists, so the first response to it
\* is never dropped for want of a slot, however early the reader takes it.
C34_SlotBeforeSend ==
    /\ [](InFlight /\ Unresolved => tcall.id \in pending)
    /\ [][(/\ InFlight /\ Unresolved
           /\ wire # <<>> /\ wire' = Tail(wire) /\ Head(wire).id = tcall.id)
          => /\ handled'[Len(handled')].outcome = "resolved"
             /\ slot' = Head(wire)]_vars

\* sse: the response came on the stream while post_json had not returned
C34_Witness ==
    /\ transport = "sse" /\ tcall.pc = "posting" /\ tcall.id = 1
    /\ slot = [id |-> 1, copy |-> 1]
    /\ handled = <<[id |-> 1, copy |-> 1, outcome |-> "resolved"]>>

\* C39: when send_request has returned, with a response, a transport error
\* or a timeout, the map holds no slot for its request: only the request in
\* flight can have one.
C39_NoSlotAfterReturn ==
    /\ tcall.pc = "idle" => pending = {}
    /\ \A i \in pending : i = tcall.id

\* calls have returned by the body, by the slot and by the timeout
C39_Witness ==
    /\ tcall = NoCall /\ pending = {} /\ request_seq = 2
    /\ Len(delivered) = 1
    /\ \E k \in 1..Len(handled) : handled[k].outcome = "dropped"

\* ---------------------------------------------------------------------------
\* sse_to_stdio and streamable_http_to_stdio: the synthesized handshake
\* ---------------------------------------------------------------------------

\* the ids of the messages the server has seen
PeerIds == {peer[j].id : j \in 1..Len(peer)}

\* the synthesized initialize has returned with an error payload
SynthesizedFailed == pc = "autoinit" /\ rw.pc = "done" /\ rw.value.kind = "error"

\* C35: when the synthesized initialize ends in an error, the request being
\* handled is not sent to the server and the next line on stdout is that
\* error under the request's own id, not under the synthesized id.
C35_InitErrorAnswersRequest ==
    [][(SynthesizedFailed /\ pc' # pc) =>
          /\ pc' = "read" /\ rw' = RwIdle /\ peer' = peer
          /\ message.id \notin PeerIds
          /\ Len(stdout') = Len(stdout) + 1
          /\ stdout'[Len(stdout')].id = message.id
          /\ stdout'[Len(stdout')].id # auto_init_id(nextInit - 1)
          /\ stdout'[Len(stdout')].kind = "error"
          /\ stdout'[Len(stdout')].code = rw.value.code]_vars

\* the server refused the synthesized initialize; its error is on stdout
\* under the id of the request, which the server never saw
C35_Witness ==
    /\ gw \in {"sse", "http"} /\ pc = "read" /\ Len(inbound) = 1
    /\ inbound[1] = [method |-> "tools/list", id |-> 1]
    /\ peer = <<create_initialize_request(auto_init_id(0))>>
    /\ Len(stdout) = 1 /\ stdout[1].src = "loop" /\ stdout[1].id = 1
    /\ stdout[1].kind = "error" /\ stdout[1].code = 0 - 32601

\* the step sends the server a synthesized initialize or a
\* notifications/initialized
SendsHandshake ==
    /\ Len(peer') = Len(peer) + 1
    /\ \/ peer'[Len(peer')] = create_initialized_notification
       \/ peer'[Len(peer')].id < 0

\* C36: `initialized` becomes true only when a POST of
\* notifications/initialized has succeeded, it stays true, and from then on
\* neither a synthesized initialize nor a notifications/initialized is sent.
C36_InitializedOnce ==
    /\ [][(~initialized /\ initialized') =>
             /\ rw.pc = "done" /\ rw.label = "notification" /\ rw.result = "ok"
             /\ peer # <<>> /\ peer[Len(peer)] = create_initialized_notification]_vars
    /\ [][initialized => (initialized' /\ ~SendsHandshake)]_vars

\* after the synthesized handshake two requests went to the server, the
\* second one with nothing in between
C36_Witness ==
    /\ gw \in {"sse", "http"} /\ initialized
    /\ peer = <<create_initialize_request(auto_init_id(0)),
                create_initialized_notification,
                [method |-> "tools/list", id |-> 1],
                [method |-> "tools/list", id |-> 2]>>

\* ---------------------------------------------------------------------------
\* CircuitBreaker::wait_if_open: the caller that finds the breaker open
\* ---------------------------------------------------------------------------

\* the clock advances and tokio::time::sleep returns once its deadline passed
SpecBreakerFair ==
    InitBreaker /\ [][NextBreaker]_vars /\ WF_vars(Tick) /\ WF_vars(BrCooldownOver)

\* the caller goes on from wait_if_open with the breaker closed
ProceedsClosed ==
    /\ rw.pc = "op" /\ ~breaker.open /\ breaker.consecutive_failures = 0
    /\ openUntil = 0

\* C37: a caller that finds the breaker open sleeps for what is left of the
\* cooldown and no longer, and then goes on with the breaker closed and the
\* failure counter at zero; it is never held for good.
C37_BreakerNeverBlocks ==
    /\ [][(rw.pc = "wait" /\ rw'.pc = "cooldown") =>
             /\ breaker.open
             /\ wakeAt' - now <= CooldownTicks
             /\ wakeAt' <= (IF openedAt + CooldownTicks > now
                            THEN openedAt + CooldownTicks ELSE now)]_vars
    /\ [][(rw.pc = "cooldown" /\ rw'.pc # "cooldown") => ProceedsClosed']_vars
    /\ ((rw.pc = "cooldown" /\ wakeAt <= MaxTime) ~> ProceedsClosed)

\* the caller found the breaker open with cooldown left, slept, and is about
\* to issue its attempt with the breaker closed
C37_Witness ==
    /\ ProceedsClosed /\ rw.attempt >= 1
    /\ openedAt >= 0 /\ wakeAt = openedAt + CooldownTicks /\ now = wakeAt

\* ---------------------------------------------------------------------------
\* tool_api client: ensure_initialized before tools/list and tools/call
\* ---------------------------------------------------------------------------

\* The clones of a ToolClient share one ClientState behind a Mutex that
\* refresh_tools and call_tool hold from ensure_initialized to the answer of
\* their request: the operations run one after the other.

\* faulty variant: the handshake is skipped
NeedsHandshakeNever(flag) == FALSE

\* ensure_initialized: `if self.initialized { return Ok(()); }`
NeedsHandshake(flag) == ~flag

\* an entry of the history: the method and how the transport call ended:
\* "ok", "error" (a JSON-RPC error in the answer) or "failed" (Err)
Sent(method, outcome) == [method |-> method, outcome |-> outcome]

InitClient == /\ client_initialized = FALSE /\ hsPc = "idle" /\ hsOp = ""
              /\ hsWire = <<>> /\ hsOps = 0
              /\ PastIdle /\ EnvIdle /\ SessIdle

hsRest == <<pastVars, envVars, sessVars>>

\* refresh_tools or call_tool takes the lock and enters ensure_initialized
OpBegin ==
    /\ hsPc = "idle" /\ hsOps < MaxOps
    /\ hsOps' = hsOps + 1
    /\ hsOp' \in {"tools/list", "tools/call"}
    /\ hsPc' = IF NeedsHandshake(client_initialized) THEN "init" ELSE "request"
    /\ UNCHANGED <<client_initialized, hsWire, hsRest>>

\* ensure_initialized: the initialize request was answered without error
InitializeAnswered ==
    /\ hsPc = "init"
    /\ hsWire' = Append(hsWire, Sent("initialize", "ok"))
    /\ hsPc' = "notify"
    /\ UNCHANGED <<client_initialized, hsOp, hsOps, hsRest>>

\* ensure_initialized: `send_request(..).await?` or `ensure_no_rpc_error(..)?`
\* returns the error to the caller
InitializeFails ==
    /\ hsPc = "init"
    /\ \E o \in {"error", "failed"} : hsWire' = Append(hsWire, Sent("initialize", o))
    /\ hsPc' = "idle"
    /\ UNCHANGED <<client_initialized, hsOp, hsOps, hsRest>>

\* ensure_initialized: send_notification returned Ok, `self.initialized = true`
NotificationSent ==
    /\ hsPc = "notify"
    /\ hsWire' = Append(hsWire, Sent("notifications/initialized", "ok"))
    /\ client_initialized' = TRUE
    /\ hsPc' = "request"
    /\ UNCHANGED <<hsOp, hsOps, hsRest>>

\* ensure_initialized: `send_notification(..).await?` returns the error
NotificationFails ==
    /\ hsPc = "notify"
    /\ hsWire' = Append(hsWire, Sent("notifications/initialized", "failed"))
    /\ hsPc' = "idle"
    /\ UNCHANGED <<client_initialized, hsOp, hsOps, hsRest>>

\* send_jsonrpc_request("tools/list" | "tools/call", ..), whatever its answer
RequestSent ==
    /\ hsPc = "request"
    /\ \E o \in {"ok", "error", "failed"} : hsWire' = Append(hsWire, Sent(hsOp, o))
    /\ hsPc' = "idle"
    /\ UNCHANGED <<client_initialized, hsOp, hsOps, hsRest>>

NextClient == \/ OpBegin \/ InitializeAnswered \/ InitializeFails
              \/ NotificationSent \/ NotificationFails \/ RequestSent

SpecClient == InitClient /\ [][NextClient]_vars

\* entries i and i + 1 are an initialize answered without error and the
\* notifications/initialized sent after it
HandshakeAt(i) ==
    /\ i + 1 <= Len(hsWire)
    /\ hsWire[i] = Sent("initialize", "ok")
    /\ hsWire[i + 1] = Sent("notifications/initialized", "ok")

\* C38: a tools/list or tools/call request goes out only after an initialize
\* was answered without error and notifications/initialized was sent; after
\* one such handshake no initialize is sent again.
C38_HandshakeOnceFirst ==
    /\ \A k \in 1..Len(hsWire) :
          hsWire[k].method \in {"tools/list", "tools/call"} =>
              \E i \in 1..(k - 2) : HandshakeAt(i)
    /\ \A i \in 1..Len(hsWire) :
          HandshakeAt(i) =>
              \A k \in (i + 2)..Len(hsWire) : hsWire[k].method # "initialize"

\* a handshake that failed, the one that succeeded, and two requests after it
C38_Witness ==
    /\ hsPc = "idle" /\ Len(hsWire) = 5
    /\ hsWire[1] = Sent("initialize", "error")
    /\ HandshakeAt(2)
    /\ hsWire[4].method = "tools/list" /\ hsWire[5].method = "tools/call"

\* ---------------------------------------------------------------------------
\* stdio_to_grpc: the client map after a reader task has ended
\* ---------------------------------------------------------------------------

\* the lock of the client map is never held across an await: the reader task
\* that left its loop gets it
SpecGrpcFair ==
    InitGrpc /\ [][NextGrpc]_vars /\ \A c \in Tags : WF_vars(ReaderRemoves(c))

\* C40: whichever way the reader task of a client leaves its loop (end of the
\* stream, read error, failed write to the child), its entry is removed from
\* the client map: no finished task has an entry, and a task that left its
\* loop finishes.
C40_EntryRemoved ==
    /\ [](\A c \in Tags : readerPc[c] = "ended" => c \notin clients)
    /\ \A c \in Tags :
          (readerPc[c] = "leaving") ~> (readerPc[c] = "ended" /\ c \notin clients)

\* both reader tasks have ended, one after forwarding a message and one
\* before forwarding any; the map is empty
C40_Witness ==
    /\ readerPc[TagA] = "ended" /\ sent[TagA] >= 1
    /\ readerPc[TagB] = "ended" /\ sent[TagB] = 0
    /\ clients = {}

====
